---- MODULE Spec2Model ----
(***************************************************************************)
(* A model of the RPC chat room: server.go (ChatServer, its two handlers   *)
(* and the accept loop of main), the callers of its two remote procedures  *)
(* and the chat client of client.go.  Strings are sequences of             *)
(* one-character strings.                                                  *)
(***************************************************************************)
EXTENDS Integers, Sequences, FiniteSets, TLC

(* ------------------------------ bounds --------------------------------- *)

\* Connections that may ever be dialled.
MaxConns == 2

\* Remote calls that may ever be issued, over all connections.
MaxCalls == 3

\* Longest name and longest message over Alphabet that Format is tried on.
MaxStrLen == 2
MaxBoots == 1

Conns == 1..MaxConns

(* ------------------------------ strings -------------------------------- *)

Empty == <<>>
Alice == <<"a", "l", "i", "c", "e">>
Bob   == <<"b", "o", "b">>
Hi    == <<"h", "i">>
Hello == <<"h", "e", "l", "l", "o">>

\* Values of MessageArgs (Name, Message) the caller on connection c draws from.
InputsOf(c) ==
    IF c = 2 THEN {<<Empty, Empty>>, <<Bob, Hello>>}
             ELSE {<<Empty, Empty>>, <<Alice, Hi>>}

\* formattedMsg := args.Name + ": " + args.Message
FormatNoSpace(name, message) == name \o <<":">> \o message
Format(name, message) == name \o <<":", " ">> \o message

\* dst := make([]string, len(h)); copy(dst, h): a fresh slice of len(h)
\* elements, of which copy fills the first min(len(dst), len(h)).
Min(a, b) == IF a < b THEN a ELSE b
MakeCopyShort(h) ==
    LET n == Min(Len(h), 1) IN [i \in 1..n |-> h[i]]
MakeCopyReversed(h) ==
    LET n == Len(h) IN [i \in 1..n |-> h[n + 1 - i]]
MakeCopy(h) ==
    LET n == Len(h) IN
    [i \in 1..n |-> IF i <= Min(n, Len(h)) THEN h[i] ELSE Empty]

\* return nil, the only return statement of SendMessage.
SendMessageResultValidating(name, message) ==
    IF message = Empty THEN "error" ELSE "nil"
SendMessageResult(name, message) == "nil"

\* return nil, the only return statement of GetHistory.
GetHistoryResult == "nil"

(* ------------------------------- state --------------------------------- *)

VARIABLES
    history,    \* ChatServer.history
    mu,         \* ChatServer.mu: TRUE while locked
    auditLog,   \* the lines log.Printf wrote in SendMessage
    mainPc,     \* position of the server's main: Listen, Accept, LogErr, Fatal
    client,     \* per connection, the calling process: start, connected, exited
    sess,       \* per connection, the server side: none, backlog, serving, ended
    hpc,        \* per connection, the position of its call and handler goroutine
    call,       \* per connection, the method and arguments of its call
    local,      \* per connection, the slice value read by append's operand
    reply,      \* per connection, the handler's reply.History
    ret,        \* per connection, the handler's returned error
    received,   \* per connection, the History of the last reply the caller got
    nCalls,     \* calls issued so far
    listenErr,  \* main's err of net.Listen: TRUE when it is not nil
    boots,      \* how many times the server process has been started again
    \* Observations, recorded beside the program's state and never read by it:
    sent,       \* the bag of the (name, message) submitted
    applied,    \* the (name, message, conn) of the completed appends, in order
    atLock,     \* per connection, Len(applied) when its call took the lock
    myIdx,      \* per connection, the place of its call's append in applied
    pre,        \* per connection, history just before its call's append
    before,     \* per connection, the appends already answered at its call
    recvTag,    \* per connection, the call that produced received: method, atLock
    issued,     \* per connection, the (name, message) it submitted, in call order
    dropped,    \* the places in applied of the appends whose reply was lost
    \* The chat client of client.go, one per connection:
    cpc,        \* its position: Name, Loop at the prompt, Call, Done, Fatal
    clientName, \* its variable name
    typed,      \* the line it read last, as typed
    printed     \* the lines it wrote to standard output after its last reply

vars == <<history, mu, auditLog, mainPc, client, sess, hpc, call, local, reply,
          ret, received, nCalls, sent, applied, atLock, myIdx, pre, before,
          recvTag, issued, dropped, cpc, clientName, typed, listenErr, boots,
          printed>>

server == <<history, mu, auditLog>>
obs    == <<sent, applied, atLock, myIdx, pre, before, recvTag, issued, dropped>>
chat   == <<cpc, clientName, typed, printed>>
proc   == <<listenErr, boots>>

\* A bag, a function from its members to their number, with one more x.
AddToBag(b, x) ==
    IF x \in DOMAIN b THEN [b EXCEPT ![x] = @ + 1] ELSE b @@ (x :> 1)

NoCall == [method |-> "none", name |-> Empty, message |-> Empty]
NoTag  == [method |-> "none", stamp |-> 0]
IsSendCall(c) == call[c].method = "SendMessage"

\* The handler positions at which the goroutine holds the lock.
Critical == {"Append", "Store", "Copy", "Unlock"}
InCS(c) == hpc[c] \in Critical

\* The appends whose call has been answered: completed and no longer in flight.
Returned == {k \in 1..Len(applied) : \A c \in Conns : myIdx[c] # k}

Init ==
    /\ history = <<>>
    /\ mu = FALSE
    /\ auditLog = <<>>
    /\ mainPc = "Listen"
    /\ client = [c \in Conns |-> "start"]
    /\ sess = [c \in Conns |-> "none"]
    /\ hpc = [c \in Conns |-> "none"]
    /\ call = [c \in Conns |-> NoCall]
    /\ local = [c \in Conns |-> <<>>]
    /\ reply = [c \in Conns |-> <<>>]
    /\ ret = [c \in Conns |-> "none"]
    /\ received = [c \in Conns |-> <<>>]
    /\ nCalls = 0
    /\ sent = <<>>
    /\ applied = <<>>
    /\ atLock = [c \in Conns |-> 0]
    /\ myIdx = [c \in Conns |-> 0]
    /\ pre = [c \in Conns |-> <<>>]
    /\ before = [c \in Conns |-> {}]
    /\ recvTag = [c \in Conns |-> NoTag]
    /\ issued = [c \in Conns |-> <<>>]
    /\ dropped = {}
    /\ cpc = [c \in Conns |-> "Name"]
    /\ clientName = [c \in Conns |-> Empty]
    /\ typed = [c \in Conns |-> Empty]
    /\ listenErr = FALSE
    /\ boots = 0
    /\ printed = [c \in Conns |-> <<>>]

(* ------------------------- server: main ------------------------------- *)

\* net.Listen succeeds: main enters the accept loop.
ListenOk ==
    /\ mainPc = "Listen"
    /\ mainPc' = "Accept"
    /\ UNCHANGED <<proc, chat, server, client, sess, hpc, call, local, reply, ret, received,
                   nCalls, obs>>

\* net.Listen fails: log.Fatal ends the process.
ListenFailLogged ==
    /\ mainPc = "Listen"
    /\ listenErr' = TRUE
    /\ mainPc' = "Accept"
    /\ UNCHANGED <<boots, chat, server, client, sess, hpc, call, local, reply, ret,
                   received, nCalls, obs>>
ListenFail ==
    /\ mainPc = "Listen"
    /\ listenErr' = TRUE
    /\ mainPc' = "Fatal"
    /\ UNCHANGED <<boots, chat, server, client, sess, hpc, call, local, reply, ret, received,
                   nCalls, obs>>

\* listener.Accept returns an error: it blocks until a connection is
\* pending and fails while taking it; the connection stays queued.
AcceptErr ==
    /\ mainPc = "Accept"
    /\ \E c \in Conns : sess[c] = "backlog"
    /\ mainPc' = "LogErr"
    /\ UNCHANGED <<proc, chat, server, client, sess, hpc, call, local, reply, ret, received,
                   nCalls, obs>>

\* log.Printf("Accept error"); continue.
LogAcceptErrFatal ==
    /\ mainPc = "LogErr"
    /\ mainPc' = "Fatal"
    /\ UNCHANGED <<proc, chat, server, client, sess, hpc, call, local, reply, ret, received,
                   nCalls, obs>>
LogAcceptErr ==
    /\ mainPc = "LogErr"
    /\ mainPc' = "Accept"
    /\ UNCHANGED <<proc, chat, server, client, sess, hpc, call, local, reply, ret, received,
                   nCalls, obs>>

\* listener.Accept returns connection c, the oldest one waiting in the
\* listen queue; go rpc.ServeConn(conn); loop.
AcceptOkSerial(c) ==
    /\ mainPc = "Accept"
    /\ sess[c] = "backlog"
    /\ \A d \in Conns : d < c => sess[d] # "backlog"
    /\ \A d \in Conns : sess[d] # "serving"
    /\ sess' = [sess EXCEPT ![c] = "serving"]
    /\ UNCHANGED <<proc, chat, server, mainPc, client, hpc, call, local, reply, ret, received,
                   nCalls, obs>>
AcceptOk(c) ==
    /\ mainPc = "Accept"
    /\ sess[c] = "backlog"
    /\ \A d \in Conns : d < c => sess[d] # "backlog"
    /\ sess' = [sess EXCEPT ![c] = "serving"]
    /\ UNCHANGED <<proc, chat, server, mainPc, client, hpc, call, local, reply, ret, received,
                   nCalls, obs>>

\* rpc.ServeConn of c reads end of file once the caller has closed: it returns.
SessionEndEarly(c) ==
    /\ sess[c] = "serving"
    /\ hpc[c] = "none"
    /\ sess' = [sess EXCEPT ![c] = "ended"]
    /\ UNCHANGED <<proc, chat, server, mainPc, client, hpc, call, local, reply, ret, received,
                   nCalls, obs>>
SessionEndPurge(c) ==
    /\ sess[c] = "serving"
    /\ client[c] = "exited"
    /\ hpc[c] = "none"
    /\ sess' = [sess EXCEPT ![c] = "ended"]
    /\ history' = LET keep == {k \in 1..Len(history) :
                                  k <= Len(applied) => applied[k].conn # c} IN
                  [i \in 1..Cardinality(keep) |->
                      history[CHOOSE k \in keep :
                                  Cardinality({j \in keep : j <= k}) = i]]
    /\ UNCHANGED <<proc, chat, mu, auditLog, mainPc, client, hpc, call, local, reply,
                   ret, received, nCalls, obs>>
SessionEnd(c) ==
    /\ sess[c] = "serving"
    /\ client[c] = "exited"
    /\ hpc[c] = "none"
    /\ sess' = [sess EXCEPT ![c] = "ended"]
    /\ UNCHANGED <<proc, chat, server, mainPc, client, hpc, call, local, reply, ret, received,
                   nCalls, obs>>

(* ------------------------- the callers -------------------------------- *)

\* rpc.Dial succeeds against the listening socket.  Connections are numbered
\* in the order in which they are dialled.
DialKick(c) ==
    /\ mainPc \in {"Accept", "LogErr"}
    /\ client[c] = "start"
    /\ \A d \in Conns : d < c => client[d] # "start"
    /\ client' = [client EXCEPT ![c] = "connected"]
    /\ sess' = [d \in Conns |-> IF d = c THEN "backlog"
                                 ELSE IF sess[d] = "serving" THEN "ended"
                                 ELSE sess[d]]
    /\ UNCHANGED <<proc, chat, server, mainPc, hpc, call, local, reply, ret, received,
                   nCalls, obs>>
Dial(c) ==
    /\ mainPc \in {"Accept", "LogErr"}
    /\ client[c] = "start"
    /\ \A d \in Conns : d < c => client[d] # "start"
    /\ client' = [client EXCEPT ![c] = "connected"]
    /\ sess' = [sess EXCEPT ![c] = "backlog"]
    /\ UNCHANGED <<proc, chat, server, mainPc, hpc, call, local, reply, ret, received,
                   nCalls, obs>>

\* client.Call(method, args, &reply): the request is written to the connection.
Call(c, m, name, message) ==
    /\ client[c] = "connected"
    /\ hpc[c] = "none"
    /\ nCalls < MaxCalls
    /\ nCalls' = nCalls + 1
    /\ hpc' = [hpc EXCEPT ![c] = "Req"]
    /\ call' = [call EXCEPT ![c] = [method |-> m, name |-> name, message |-> message]]
    /\ sent' = IF m = "SendMessage"
               THEN AddToBag(sent, [name |-> name, message |-> message])
               ELSE sent
    /\ before' = [before EXCEPT ![c] = Returned]
    /\ issued' = IF m = "SendMessage"
                 THEN [issued EXCEPT ![c] = Append(@, [name |-> name, message |-> message])]
                 ELSE issued
    /\ UNCHANGED <<server, mainPc, client, sess, local, reply, ret, received,
                   applied, atLock, myIdx, pre, recvTag, dropped>>

\* client.Call("ChatServer.SendMessage", args, &reply)
CallSendMessage(c) ==
    /\ \E in \in InputsOf(c) : Call(c, "SendMessage", in[1], in[2])
    /\ UNCHANGED <<proc, chat>>

\* client.Call("ChatServer.GetHistory", &struct{}{}, &reply)
CallGetHistory(c) ==
    /\ Call(c, "GetHistory", Empty, Empty)
    /\ UNCHANGED <<proc, chat>>

\* The caller leaves: client.Close(), and the process ends with its memory.
Exit(c) ==
    /\ client[c] = "connected"
    /\ hpc[c] = "none"
    /\ client' = [client EXCEPT ![c] = "exited"]
    /\ received' = [received EXCEPT ![c] = <<>>]
    /\ recvTag' = [recvTag EXCEPT ![c] = NoTag]
    /\ before' = [before EXCEPT ![c] = {}]
    /\ UNCHANGED <<proc, chat, server, mainPc, sess, hpc, call, local, reply, ret,
                   nCalls, sent, applied, atLock, myIdx, pre, issued, dropped>>

(* ------------------- server: one call of a session -------------------- *)

\* The session of c reads the request and starts the handler in a goroutine
\* with a fresh reply value.
ReadRequestLocked(c) ==
    /\ sess[c] = "serving"
    /\ hpc[c] = "Req"
    /\ mu = FALSE
    /\ mu' = TRUE
    /\ hpc' = [hpc EXCEPT ![c] = "Lock"]
    /\ reply' = [reply EXCEPT ![c] = <<>>]
    /\ UNCHANGED <<proc, chat, history, auditLog, mainPc, client, sess, call, local,
                   ret, received, nCalls, obs>>
ReadRequest(c) ==
    /\ sess[c] = "serving"
    /\ hpc[c] = "Req"
    /\ hpc' = [hpc EXCEPT ![c] = "Lock"]
    /\ reply' = [reply EXCEPT ![c] = <<>>]
    /\ UNCHANGED <<proc, chat, server, mainPc, client, sess, call, local, ret, received,
                   nCalls, obs>>

\* SendMessage: s.mu.Lock() blocks while the mutex is locked.
SendLockNoWait(c) ==
    /\ hpc[c] = "Lock"
    /\ call[c].method = "SendMessage"
    /\ mu' = TRUE
    /\ hpc' = [hpc EXCEPT ![c] = "Append"]
    /\ atLock' = [atLock EXCEPT ![c] = Len(applied)]
    /\ UNCHANGED <<proc, chat, history, auditLog, mainPc, client, sess, call, local, reply, ret,
                   received, nCalls, sent, applied, myIdx, pre, before, recvTag,
                   issued, dropped>>
SendLock(c) ==
    /\ hpc[c] = "Lock"
    /\ call[c].method = "SendMessage"
    /\ mu = FALSE
    /\ mu' = TRUE
    /\ hpc' = [hpc EXCEPT ![c] = "Append"]
    /\ atLock' = [atLock EXCEPT ![c] = Len(applied)]
    /\ UNCHANGED <<proc, chat, history, auditLog, mainPc, client, sess, call, local, reply, ret,
                   received, nCalls, sent, applied, myIdx, pre, before, recvTag,
                   issued, dropped>>

\* append(s.history, formattedMsg): the operand s.history is read.
AppendReadUnlock(c) ==
    /\ hpc[c] = "Append"
    /\ local' = [local EXCEPT ![c] = history]
    /\ hpc' = [hpc EXCEPT ![c] = "Store"]
    /\ mu' = FALSE
    /\ UNCHANGED <<proc, chat, history, auditLog, mainPc, client, sess, call, reply, ret,
                   received, nCalls, obs>>
AppendRead(c) ==
    /\ hpc[c] = "Append"
    /\ local' = [local EXCEPT ![c] = history]
    /\ hpc' = [hpc EXCEPT ![c] = "Store"]
    /\ UNCHANGED <<proc, chat, server, mainPc, client, sess, call, reply, ret, received,
                   nCalls, obs>>

\* The slice append returns: the operand followed by the new element.
GrowFront(h, line) == <<line>> \o h
GrowBeforeLast(h, line) ==
    IF h = <<>> THEN <<line>>
    ELSE SubSeq(h, 1, Len(h) - 1) \o <<line, h[Len(h)]>>
GrowDedup(h, line) ==
    IF \E i \in 1..Len(h) : h[i] = line THEN h ELSE Append(h, line)
Grow(h, line) == Append(h, line)

\* s.history = append(...): the grown slice is stored; then log.Printf
\* records the name, the message and len(s.history).
AppendStoreEarlyUnlock(c) ==
    /\ hpc[c] = "Store"
    /\ history' = Grow(local[c], Format(call[c].name, call[c].message))
    /\ auditLog' = Append(auditLog, [name |-> call[c].name,
                                     message |-> call[c].message,
                                     n |-> Len(history')])
    /\ applied' = Append(applied, [name |-> call[c].name, message |-> call[c].message,
                                   conn |-> c])
    /\ myIdx' = [myIdx EXCEPT ![c] = Len(applied) + 1]
    /\ pre' = [pre EXCEPT ![c] = history]
    /\ local' = [local EXCEPT ![c] = <<>>]
    /\ hpc' = [hpc EXCEPT ![c] = "Copy"]
    /\ mu' = FALSE
    /\ UNCHANGED <<proc, chat, mainPc, client, sess, call, reply, ret, received,
                   nCalls, sent, atLock, before, recvTag, issued, dropped>>
AppendStoreWriteThrough(c) ==
    /\ hpc[c] = "Store"
    /\ history' = Grow(local[c], Format(call[c].name, call[c].message))
    /\ auditLog' = Append(auditLog, [name |-> call[c].name,
                                     message |-> call[c].message,
                                     n |-> Len(history')])
    /\ applied' = Append(applied, [name |-> call[c].name, message |-> call[c].message,
                                   conn |-> c])
    /\ myIdx' = [myIdx EXCEPT ![c] = Len(applied) + 1]
    /\ pre' = [pre EXCEPT ![c] = history]
    /\ local' = [local EXCEPT ![c] = <<>>]
    /\ hpc' = [hpc EXCEPT ![c] = "Copy"]
    /\ reply' = [d \in Conns |->
                    IF hpc[d] \in {"Unlock", "Reply"}
                    THEN Append(reply[d], Format(call[c].name, call[c].message))
                    ELSE reply[d]]
    /\ UNCHANGED <<proc, chat, mu, mainPc, client, sess, call, ret, received,
                   nCalls, sent, atLock, before, recvTag, issued, dropped>>
AppendStoreLogBefore(c) ==
    /\ hpc[c] = "Store"
    /\ history' = Grow(local[c], Format(call[c].name, call[c].message))
    /\ auditLog' = Append(auditLog, [name |-> call[c].name,
                                     message |-> call[c].message,
                                     n |-> Len(history)])
    /\ applied' = Append(applied, [name |-> call[c].name, message |-> call[c].message,
                                   conn |-> c])
    /\ myIdx' = [myIdx EXCEPT ![c] = Len(applied) + 1]
    /\ pre' = [pre EXCEPT ![c] = history]
    /\ local' = [local EXCEPT ![c] = <<>>]
    /\ hpc' = [hpc EXCEPT ![c] = "Copy"]
    /\ UNCHANGED <<proc, chat, mu, mainPc, client, sess, call, reply, ret, received,
                   nCalls, sent, atLock, before, recvTag, issued, dropped>>
AppendStoreSkipEmpty(c) ==
    /\ hpc[c] = "Store"
    /\ history' = IF call[c].message = Empty THEN local[c]
                  ELSE Grow(local[c], Format(call[c].name, call[c].message))
    /\ auditLog' = Append(auditLog, [name |-> call[c].name,
                                     message |-> call[c].message,
                                     n |-> Len(history')])
    /\ applied' = Append(applied, [name |-> call[c].name, message |-> call[c].message,
                                   conn |-> c])
    /\ myIdx' = [myIdx EXCEPT ![c] = Len(applied) + 1]
    /\ pre' = [pre EXCEPT ![c] = history]
    /\ local' = [local EXCEPT ![c] = <<>>]
    /\ hpc' = [hpc EXCEPT ![c] = "Copy"]
    /\ UNCHANGED <<proc, chat, mu, mainPc, client, sess, call, reply, ret, received,
                   nCalls, sent, atLock, before, recvTag, issued, dropped>>
AppendStore(c) ==
    /\ hpc[c] = "Store"
    /\ history' = Grow(local[c], Format(call[c].name, call[c].message))
    /\ auditLog' = Append(auditLog, [name |-> call[c].name,
                                     message |-> call[c].message,
                                     n |-> Len(history')])
    /\ applied' = Append(applied, [name |-> call[c].name, message |-> call[c].message,
                                   conn |-> c])
    /\ myIdx' = [myIdx EXCEPT ![c] = Len(applied) + 1]
    /\ pre' = [pre EXCEPT ![c] = history]
    /\ local' = [local EXCEPT ![c] = <<>>]
    /\ hpc' = [hpc EXCEPT ![c] = "Copy"]
    /\ UNCHANGED <<proc, chat, mu, mainPc, client, sess, call, reply, ret, received,
                   nCalls, sent, atLock, before, recvTag, issued, dropped>>

\* SendMessage: reply.History = make([]string, len(s.history));
\* copy(reply.History, s.history)
SendCopyOwn(c) ==
    /\ hpc[c] = "Copy"
    /\ call[c].method = "SendMessage"
    /\ reply' = [reply EXCEPT ![c] = <<history[Len(history)]>>]
    /\ hpc' = [hpc EXCEPT ![c] = "Unlock"]
    /\ UNCHANGED <<proc, chat, server, mainPc, client, sess, call, local, ret, received,
                   nCalls, obs>>
SendCopy(c) ==
    /\ hpc[c] = "Copy"
    /\ call[c].method = "SendMessage"
    /\ reply' = [reply EXCEPT ![c] = MakeCopy(history)]
    /\ hpc' = [hpc EXCEPT ![c] = "Unlock"]
    /\ UNCHANGED <<proc, chat, server, mainPc, client, sess, call, local, ret, received,
                   nCalls, obs>>

\* SendMessage: return nil, and the deferred s.mu.Unlock().
SendReturnNoUnlock(c) ==
    /\ hpc[c] = "Unlock"
    /\ call[c].method = "SendMessage"
    /\ ret' = [ret EXCEPT ![c] = SendMessageResult(call[c].name, call[c].message)]
    /\ hpc' = [hpc EXCEPT ![c] = "Reply"]
    /\ UNCHANGED <<proc, chat, server, mainPc, client, sess, call, local, reply,
                   received, nCalls, obs>>
SendReturn(c) ==
    /\ hpc[c] = "Unlock"
    /\ call[c].method = "SendMessage"
    /\ mu' = FALSE
    /\ ret' = [ret EXCEPT ![c] = SendMessageResult(call[c].name, call[c].message)]
    /\ hpc' = [hpc EXCEPT ![c] = "Reply"]
    /\ UNCHANGED <<proc, chat, history, auditLog, mainPc, client, sess, call, local, reply,
                   received, nCalls, obs>>

\* GetHistory: s.mu.Lock() blocks while the mutex is locked.
GetLockNoWait(c) ==
    /\ hpc[c] = "Lock"
    /\ call[c].method = "GetHistory"
    /\ mu' = TRUE
    /\ hpc' = [hpc EXCEPT ![c] = "Copy"]
    /\ atLock' = [atLock EXCEPT ![c] = Len(applied)]
    /\ UNCHANGED <<proc, chat, history, auditLog, mainPc, client, sess, call, local, reply, ret,
                   received, nCalls, sent, applied, myIdx, pre, before, recvTag,
                   issued, dropped>>
GetLock(c) ==
    /\ hpc[c] = "Lock"
    /\ call[c].method = "GetHistory"
    /\ mu = FALSE
    /\ mu' = TRUE
    /\ hpc' = [hpc EXCEPT ![c] = "Copy"]
    /\ atLock' = [atLock EXCEPT ![c] = Len(applied)]
    /\ UNCHANGED <<proc, chat, history, auditLog, mainPc, client, sess, call, local, reply, ret,
                   received, nCalls, sent, applied, myIdx, pre, before, recvTag,
                   issued, dropped>>

\* GetHistory: reply.History = make([]string, len(s.history));
\* copy(reply.History, s.history)
GetCopyDrain(c) ==
    /\ hpc[c] = "Copy"
    /\ call[c].method = "GetHistory"
    /\ reply' = [reply EXCEPT ![c] = MakeCopy(history)]
    /\ history' = <<>>
    /\ hpc' = [hpc EXCEPT ![c] = "Unlock"]
    /\ UNCHANGED <<proc, chat, mu, auditLog, mainPc, client, sess, call, local, ret, received,
                   nCalls, obs>>
GetCopyLast(c) ==
    /\ hpc[c] = "Copy"
    /\ call[c].method = "GetHistory"
    /\ reply' = [reply EXCEPT ![c] = IF history = <<>> THEN <<>>
                                     ELSE <<history[Len(history)]>>]
    /\ hpc' = [hpc EXCEPT ![c] = "Unlock"]
    /\ UNCHANGED <<proc, chat, server, mainPc, client, sess, call, local, ret, received,
                   nCalls, obs>>
GetCopyEarlyReturn(c) ==
    /\ hpc[c] = "Copy"
    /\ call[c].method = "GetHistory"
    /\ reply' = [reply EXCEPT ![c] = MakeCopy(history)]
    /\ ret' = [ret EXCEPT ![c] = IF history = <<>> THEN GetHistoryResult ELSE @]
    /\ hpc' = [hpc EXCEPT ![c] = IF history = <<>> THEN "Reply" ELSE "Unlock"]
    /\ UNCHANGED <<proc, chat, server, mainPc, client, sess, call, local, received,
                   nCalls, obs>>
GetCopy(c) ==
    /\ hpc[c] = "Copy"
    /\ call[c].method = "GetHistory"
    /\ reply' = [reply EXCEPT ![c] = MakeCopy(history)]
    /\ hpc' = [hpc EXCEPT ![c] = "Unlock"]
    /\ UNCHANGED <<proc, chat, server, mainPc, client, sess, call, local, ret, received,
                   nCalls, obs>>

\* GetHistory: return nil, and the deferred s.mu.Unlock().
GetReturnNoUnlock(c) ==
    /\ hpc[c] = "Unlock"
    /\ call[c].method = "GetHistory"
    /\ ret' = [ret EXCEPT ![c] = GetHistoryResult]
    /\ hpc' = [hpc EXCEPT ![c] = "Reply"]
    /\ UNCHANGED <<proc, chat, server, mainPc, client, sess, call, local, reply,
                   received, nCalls, obs>>
GetReturn(c) ==
    /\ hpc[c] = "Unlock"
    /\ call[c].method = "GetHistory"
    /\ mu' = FALSE
    /\ ret' = [ret EXCEPT ![c] = GetHistoryResult]
    /\ hpc' = [hpc EXCEPT ![c] = "Reply"]
    /\ UNCHANGED <<proc, chat, history, auditLog, mainPc, client, sess, call, local, reply,
                   received, nCalls, obs>>

\* The response is written to the connection, which is up, and client.Call
\* returns it: the caller holds the reply, the handler's goroutine is gone.
Deliver(c) ==
    /\ hpc[c] = "Reply"
    /\ client[c] = "connected"
    /\ hpc' = [hpc EXCEPT ![c] = "none"]
    /\ received' = [received EXCEPT ![c] = reply[c]]
    /\ recvTag' = [recvTag EXCEPT ![c] = [method |-> call[c].method, stamp |-> atLock[c]]]
    /\ call' = [call EXCEPT ![c] = NoCall]
    /\ reply' = [reply EXCEPT ![c] = <<>>]
    /\ ret' = [ret EXCEPT ![c] = "none"]
    /\ atLock' = [atLock EXCEPT ![c] = 0]
    /\ myIdx' = [myIdx EXCEPT ![c] = 0]
    /\ pre' = [pre EXCEPT ![c] = <<>>]
    /\ before' = [before EXCEPT ![c] = {}]
    /\ UNCHANGED <<proc, chat, server, mainPc, client, sess, local, nCalls, sent, applied,
                   issued, dropped>>

Next ==
    \/ ListenOk
    \/ ListenFail
    \/ AcceptErr
    \/ LogAcceptErr
    \/ \E c \in Conns : AcceptOk(c)
    \/ \E c \in Conns : SessionEnd(c)
    \/ \E c \in Conns : Dial(c)
    \/ \E c \in Conns : CallSendMessage(c)
    \/ \E c \in Conns : CallGetHistory(c)
    \/ \E c \in Conns : Exit(c)
    \/ \E c \in Conns : ReadRequest(c)
    \/ \E c \in Conns : SendLock(c)
    \/ \E c \in Conns : AppendRead(c)
    \/ \E c \in Conns : AppendStore(c)
    \/ \E c \in Conns : SendCopy(c)
    \/ \E c \in Conns : SendReturn(c)
    \/ \E c \in Conns : GetLock(c)
    \/ \E c \in Conns : GetCopy(c)
    \/ \E c \in Conns : GetReturn(c)
    \/ \E c \in Conns : Deliver(c)

Spec == Init /\ [][Next]_vars

(* ---------------- one SendMessage call, on any two strings ------------- *)

\* Every string over Alphabet of at most MaxStrLen characters, the empty one
\* included, and the names and messages used above.
Alphabet == {"a", ":", " "}
Strings == UNION {[1..n -> Alphabet] : n \in 0..MaxStrLen}
SubmitStrings == Strings \cup {Alice, Bob, Hi, Hello}

\* The first connection is being served and its SendMessage(name, message)
\* is about to take the lock; the transcript is empty or holds the line of
\* that connection's earlier SendMessage("", "").
InitSubmit ==
    \E name \in SubmitStrings, message \in SubmitStrings, n \in {0, 1} :
        LET old == [name |-> Empty, message |-> Empty]
            new == [name |-> name, message |-> message]
            olds == [i \in 1..n |-> old] IN
        /\ history = [i \in 1..n |-> <<":", " ">>]
        /\ mu = FALSE
        /\ auditLog = [i \in 1..n |-> [name |-> Empty, message |-> Empty, n |-> i]]
        /\ mainPc = "Accept"
        /\ client = [c \in Conns |-> IF c = 1 THEN "connected" ELSE "start"]
        /\ sess = [c \in Conns |-> IF c = 1 THEN "serving" ELSE "none"]
        /\ hpc = [c \in Conns |-> IF c = 1 THEN "Lock" ELSE "none"]
        /\ call = [c \in Conns |->
                      IF c = 1 THEN [method |-> "SendMessage", name |-> name,
                                     message |-> message]
                               ELSE NoCall]
        /\ local = [c \in Conns |-> <<>>]
        /\ reply = [c \in Conns |-> <<>>]
        /\ ret = [c \in Conns |-> "none"]
        /\ received = [c \in Conns |->
                          IF c = 1 THEN [i \in 1..n |-> <<":", " ">>] ELSE <<>>]
        /\ nCalls = n + 1
        /\ sent = IF n = 1 THEN AddToBag(old :> 1, new) ELSE new :> 1
        /\ applied = [i \in 1..n |-> [name |-> Empty, message |-> Empty, conn |-> 1]]
        /\ atLock = [c \in Conns |-> 0]
        /\ myIdx = [c \in Conns |-> 0]
        /\ pre = [c \in Conns |-> <<>>]
        /\ before = [c \in Conns |-> IF c = 1 THEN 1..n ELSE {}]
        /\ recvTag = [c \in Conns |->
                         IF c = 1 /\ n = 1
                         THEN [method |-> "SendMessage", stamp |-> 0]
                         ELSE NoTag]
        /\ issued = [c \in Conns |-> IF c = 1 THEN Append(olds, new) ELSE <<>>]
        /\ dropped = {}
        /\ cpc = [c \in Conns |-> "Name"]
        /\ clientName = [c \in Conns |-> Empty]
        /\ typed = [c \in Conns |-> Empty]
        /\ listenErr = FALSE
        /\ boots = 0
        /\ printed = [c \in Conns |-> <<>>]

NextSubmit ==
    \/ \E c \in Conns : SendLock(c)
    \/ \E c \in Conns : AppendRead(c)
    \/ \E c \in Conns : AppendStore(c)
    \/ \E c \in Conns : SendCopy(c)
    \/ \E c \in Conns : SendReturn(c)
    \/ \E c \in Conns : Deliver(c)

SpecSubmit == InitSubmit /\ [][NextSubmit]_vars

\* The strings made of the two characters of the separator.
SepStrings == UNION {[1..n -> {":", " "}] : n \in 0..MaxStrLen}

\* The first connection has had its SendMessage(name0, message0) answered, of
\* strings made of the separator's characters, and its SendMessage(name,
\* message) of any two strings is about to take the lock.
InitPairs ==
    \E name0 \in SepStrings, message0 \in SepStrings,
       name \in Strings, message \in Strings :
        LET old == [name |-> name0, message |-> message0]
            new == [name |-> name, message |-> message] IN
        /\ history = <<Format(name0, message0)>>
        /\ mu = FALSE
        /\ auditLog = <<[name |-> name0, message |-> message0, n |-> 1]>>
        /\ mainPc = "Accept"
        /\ client = [c \in Conns |-> IF c = 1 THEN "connected" ELSE "start"]
        /\ sess = [c \in Conns |-> IF c = 1 THEN "serving" ELSE "none"]
        /\ hpc = [c \in Conns |-> IF c = 1 THEN "Lock" ELSE "none"]
        /\ call = [c \in Conns |->
                      IF c = 1 THEN [method |-> "SendMessage", name |-> name,
                                     message |-> message]
                               ELSE NoCall]
        /\ local = [c \in Conns |-> <<>>]
        /\ reply = [c \in Conns |-> <<>>]
        /\ ret = [c \in Conns |-> "none"]
        /\ received = [c \in Conns |->
                          IF c = 1 THEN <<Format(name0, message0)>> ELSE <<>>]
        /\ nCalls = 2
        /\ sent = AddToBag(old :> 1, new)
        /\ applied = <<[name |-> name0, message |-> message0, conn |-> 1]>>
        /\ atLock = [c \in Conns |-> 0]
        /\ myIdx = [c \in Conns |-> 0]
        /\ pre = [c \in Conns |-> <<>>]
        /\ before = [c \in Conns |-> IF c = 1 THEN {1} ELSE {}]
        /\ recvTag = [c \in Conns |->
                         IF c = 1 THEN [method |-> "SendMessage", stamp |-> 0]
                                  ELSE NoTag]
        /\ issued = [c \in Conns |-> IF c = 1 THEN <<old, new>> ELSE <<>>]
        /\ dropped = {}
        /\ cpc = [c \in Conns |-> "Name"]
        /\ clientName = [c \in Conns |-> Empty]
        /\ typed = [c \in Conns |-> Empty]
        /\ listenErr = FALSE
        /\ boots = 0
        /\ printed = [c \in Conns |-> <<>>]

SpecPairs == InitPairs /\ [][NextSubmit]_vars

(* ------------- two calls in flight, one arrived before the other ------- *)

\* Both connections are being served.  The session of the first has read its
\* SendMessage request, whose handler is about to take the lock; the request
\* of the second, a SendMessage or a GetHistory, was written after that and
\* is still unread.  The transcript is empty or holds the line of the first
\* connection's earlier SendMessage("", "").
InitRace ==
    \E in1 \in InputsOf(1), in2 \in InputsOf(2), n \in {0, 1},
       m \in {"SendMessage", "GetHistory"} :
        LET old == [name |-> Empty, message |-> Empty]
            new1 == [name |-> in1[1], message |-> in1[2]]
            new2 == [name |-> in2[1], message |-> in2[2]]
            olds == [i \in 1..n |-> old]
            bag0 == [a \in {old : i \in 1..n} |-> 1]
            bag1 == AddToBag(bag0, new1) IN
        /\ history = [i \in 1..n |-> <<":", " ">>]
        /\ mu = FALSE
        /\ auditLog = [i \in 1..n |-> [name |-> Empty, message |-> Empty, n |-> i]]
        /\ mainPc = "Accept"
        /\ client = [c \in Conns |-> IF c <= 2 THEN "connected" ELSE "start"]
        /\ sess = [c \in Conns |-> IF c <= 2 THEN "serving" ELSE "none"]
        /\ hpc = [c \in Conns |-> IF c = 1 THEN "Lock" ELSE IF c = 2 THEN "Req" ELSE "none"]
        /\ call = [c \in Conns |->
                      IF c = 1 THEN [method |-> "SendMessage", name |-> in1[1],
                                     message |-> in1[2]]
                      ELSE IF c = 2 /\ m = "SendMessage"
                           THEN [method |-> m, name |-> in2[1], message |-> in2[2]]
                      ELSE IF c = 2 THEN [method |-> m, name |-> Empty, message |-> Empty]
                      ELSE NoCall]
        /\ local = [c \in Conns |-> <<>>]
        /\ reply = [c \in Conns |-> <<>>]
        /\ ret = [c \in Conns |-> "none"]
        /\ received = [c \in Conns |->
                          IF c = 1 THEN [i \in 1..n |-> <<":", " ">>] ELSE <<>>]
        /\ nCalls = n + 2
        /\ sent = IF m = "SendMessage" THEN AddToBag(bag1, new2) ELSE bag1
        /\ applied = [i \in 1..n |-> [name |-> Empty, message |-> Empty, conn |-> 1]]
        /\ atLock = [c \in Conns |-> 0]
        /\ myIdx = [c \in Conns |-> 0]
        /\ pre = [c \in Conns |-> <<>>]
        /\ before = [c \in Conns |-> IF c <= 2 THEN 1..n ELSE {}]
        /\ recvTag = [c \in Conns |->
                         IF c = 1 /\ n = 1
                         THEN [method |-> "SendMessage", stamp |-> 0]
                         ELSE NoTag]
        /\ issued = [c \in Conns |->
                        IF c = 1 THEN Append(olds, new1)
                        ELSE IF c = 2 /\ m = "SendMessage" THEN <<new2>>
                        ELSE <<>>]
        /\ dropped = {}
        /\ cpc = [c \in Conns |-> "Name"]
        /\ clientName = [c \in Conns |-> Empty]
        /\ typed = [c \in Conns |-> Empty]
        /\ listenErr = FALSE
        /\ boots = 0
        /\ printed = [c \in Conns |-> <<>>]

NextRace ==
    \/ \E c \in Conns : ReadRequest(c)
    \/ \E c \in Conns : SendLock(c)
    \/ \E c \in Conns : AppendRead(c)
    \/ \E c \in Conns : AppendStore(c)
    \/ \E c \in Conns : SendCopy(c)
    \/ \E c \in Conns : SendReturn(c)
    \/ \E c \in Conns : GetLock(c)
    \/ \E c \in Conns : GetCopy(c)
    \/ \E c \in Conns : GetReturn(c)
    \/ \E c \in Conns : Deliver(c)

SpecRace == InitRace /\ [][NextRace]_vars

(* ---------------------- a connection is lost --------------------------- *)

\* The connection of c breaks.  The caller's client.Call returns an error,
\* now or at its next call, and log.Fatal ends the process with its memory.
DropRetry(c) ==
    /\ client[c] = "connected"
    /\ hpc[c] = "Reply"
    /\ IsSendCall(c)
    /\ hpc' = [hpc EXCEPT ![c] = "Req"]
    /\ dropped' = dropped \cup {myIdx[c]}
    /\ reply' = [reply EXCEPT ![c] = <<>>]
    /\ ret' = [ret EXCEPT ![c] = "none"]
    /\ atLock' = [atLock EXCEPT ![c] = 0]
    /\ myIdx' = [myIdx EXCEPT ![c] = 0]
    /\ pre' = [pre EXCEPT ![c] = <<>>]
    /\ UNCHANGED <<proc, chat, server, mainPc, client, sess, call, local, received,
                   nCalls, sent, applied, before, recvTag, issued>>
Drop(c) ==
    /\ client[c] = "connected"
    /\ client' = [client EXCEPT ![c] = "failed"]
    /\ received' = [received EXCEPT ![c] = <<>>]
    /\ recvTag' = [recvTag EXCEPT ![c] = NoTag]
    /\ UNCHANGED <<proc, chat, server, mainPc, sess, hpc, call, local, reply, ret,
                   nCalls, sent, applied, atLock, myIdx, pre, before, issued, dropped>>

\* The request of c was lost with the connection: rpc.ServeConn reads an
\* error instead and no handler is started for it.
LoseRequest(c) ==
    /\ client[c] = "failed"
    /\ hpc[c] = "Req"
    /\ hpc' = [hpc EXCEPT ![c] = "none"]
    /\ call' = [call EXCEPT ![c] = NoCall]
    /\ before' = [before EXCEPT ![c] = {}]
    /\ UNCHANGED <<proc, chat, server, mainPc, client, sess, local, reply, ret, received,
                   nCalls, sent, applied, atLock, myIdx, pre, recvTag, issued, dropped>>

\* The handler of c has returned and the response cannot be written to the
\* broken connection: it is discarded, the handler's goroutine is gone.
LoseReplyRollback(c) ==
    /\ client[c] = "failed"
    /\ hpc[c] = "Reply"
    /\ hpc' = [hpc EXCEPT ![c] = "none"]
    /\ dropped' = IF IsSendCall(c) THEN dropped \cup {myIdx[c]} ELSE dropped
    /\ history' = IF IsSendCall(c)
                  THEN SubSeq(history, 1, myIdx[c] - 1)
                       \o SubSeq(history, myIdx[c] + 1, Len(history))
                  ELSE history
    /\ call' = [call EXCEPT ![c] = NoCall]
    /\ reply' = [reply EXCEPT ![c] = <<>>]
    /\ ret' = [ret EXCEPT ![c] = "none"]
    /\ atLock' = [atLock EXCEPT ![c] = 0]
    /\ myIdx' = [myIdx EXCEPT ![c] = 0]
    /\ pre' = [pre EXCEPT ![c] = <<>>]
    /\ before' = [before EXCEPT ![c] = {}]
    /\ UNCHANGED <<proc, chat, mu, auditLog, mainPc, client, sess, local, received, nCalls,
                   sent, applied, recvTag, issued>>
LoseReply(c) ==
    /\ client[c] = "failed"
    /\ hpc[c] = "Reply"
    /\ hpc' = [hpc EXCEPT ![c] = "none"]
    /\ dropped' = IF IsSendCall(c) THEN dropped \cup {myIdx[c]} ELSE dropped
    /\ call' = [call EXCEPT ![c] = NoCall]
    /\ reply' = [reply EXCEPT ![c] = <<>>]
    /\ ret' = [ret EXCEPT ![c] = "none"]
    /\ atLock' = [atLock EXCEPT ![c] = 0]
    /\ myIdx' = [myIdx EXCEPT ![c] = 0]
    /\ pre' = [pre EXCEPT ![c] = <<>>]
    /\ before' = [before EXCEPT ![c] = {}]
    /\ UNCHANGED <<proc, chat, server, mainPc, client, sess, local, received, nCalls,
                   sent, applied, recvTag, issued>>

\* rpc.ServeConn of c has read the error of the broken connection and its
\* handler, if any, is done: it returns.
SessionAbort(c) ==
    /\ sess[c] = "serving"
    /\ client[c] = "failed"
    /\ hpc[c] = "none"
    /\ sess' = [sess EXCEPT ![c] = "ended"]
    /\ UNCHANGED <<proc, chat, server, mainPc, client, hpc, call, local, reply, ret, received,
                   nCalls, obs>>

\* Two connections are served, with calls in flight as in InitRace; they go
\* on calling, and either connection may break at any time.
NextDrop ==
    \/ NextRace
    \/ \E c \in Conns : CallSendMessage(c)
    \/ \E c \in Conns : CallGetHistory(c)
    \/ \E c \in Conns : Drop(c)
    \/ \E c \in Conns : LoseRequest(c)
    \/ \E c \in Conns : LoseReply(c)
    \/ \E c \in Conns : SessionAbort(c)

SpecDrop == InitRace /\ [][NextDrop]_vars

(* --------------------- callers that never stop ------------------------- *)

\* A caller goes on calling GetHistory for ever: once MaxCalls calls have
\* been issued, its further calls are issued as before and not counted.
Poll(c) ==
    /\ client[c] = "connected"
    /\ hpc[c] = "none"
    /\ nCalls = MaxCalls
    /\ hpc' = [hpc EXCEPT ![c] = "Req"]
    /\ call' = [call EXCEPT ![c] = [method |-> "GetHistory", name |-> Empty,
                                    message |-> Empty]]
    /\ before' = [before EXCEPT ![c] = Returned]
    /\ UNCHANGED <<proc, chat, server, mainPc, client, sess, local, reply, ret, received,
                   nCalls, sent, applied, atLock, myIdx, pre, recvTag, issued, dropped>>

\* The calls in flight of InitRace and, after them, Fetch calls without end,
\* on connections that may break.
NextLive ==
    \/ NextRace
    \/ \E c \in Conns : CallGetHistory(c)
    \/ \E c \in Conns : Poll(c)
    \/ \E c \in Conns : Drop(c)
    \/ \E c \in Conns : LoseRequest(c)
    \/ \E c \in Conns : LoseReply(c)

\* s.mu.Lock() of the call of c returns.
Acquire(c) == SendLock(c) \/ GetLock(c)

\* A step of the session of c or of its handler's goroutine that waits for
\* nothing but the scheduler and the connection.
Run(c) ==
    \/ ReadRequest(c) \/ LoseRequest(c)
    \/ AppendRead(c) \/ AppendStore(c) \/ SendCopy(c) \/ SendReturn(c)
    \/ GetCopy(c) \/ GetReturn(c)
    \/ Deliver(c) \/ LoseReply(c)

\* The scheduler runs every goroutine that can run (weak fairness), and
\* sync.Mutex hands the lock to a waiter that has been overtaken for long
\* (its starvation mode): a waiter that could lock again and again does.
Fairness ==
    \A c \in Conns : WF_vars(Run(c)) /\ SF_vars(Acquire(c))

SpecLive == InitRace /\ [][NextLive]_vars /\ Fairness

\* The same with a lock that promises a waiter nothing.
FairnessWeak ==
    \A c \in Conns : WF_vars(Run(c)) /\ WF_vars(Acquire(c))

SpecLiveWeak == InitRace /\ [][NextLive]_vars /\ FairnessWeak

\* The calls whose handler is between s.mu.Lock() and its return.
Holders == {c \in Conns : InCS(c)}
\* The next step of the handler of c inside its critical section.
HolderStep(c) ==
    \/ AppendRead(c) \/ AppendStore(c) \/ SendCopy(c) \/ SendReturn(c)
    \/ GetCopy(c) \/ GetReturn(c)

\* Callers that may stall: the scheduler runs the handlers' goroutines and
\* the mutex serves its waiters, but nothing makes a caller send the rest of
\* a request or read a reply, and nothing makes a broken connection be
\* noticed.
FairnessServer ==
    \A c \in Conns : WF_vars(HolderStep(c)) /\ SF_vars(Acquire(c))

SpecStall == InitRace /\ [][NextLive]_vars /\ FairnessServer

(* --------------------------- the chat client --------------------------- *)

\* The white space strings.TrimSpace removes that a typed line can hold.
White == {" ", "\t", "\n", "\r", "\f"}

\* strings.TrimSpace(s): s without its leading and trailing white space.
RECURSIVE TrimLeft(_)
TrimLeft(s) ==
    IF s # <<>> /\ s[1] \in White THEN TrimLeft(Tail(s)) ELSE s
RECURSIVE TrimRight(_)
TrimRight(s) ==
    IF s # <<>> /\ s[Len(s)] \in White
    THEN TrimRight(SubSeq(s, 1, Len(s) - 1))
    ELSE s
TrimSpaceRight(s) == TrimRight(s)
TrimSpace(s) == TrimRight(TrimLeft(s))

\* reader.ReadString('\n') on a typed text: the text with the newline that
\* ended it.
ReadString(text) == text \o <<"\n">>

ExitWord   == <<"e", "x", "i", "t">>
ExitCaps   == <<"E", "x", "i", "t">>
ExitPadded == <<" ", "e", "x", "i", "t", " ">>
Blank      == <<" ">>
AlicePadded == <<" ", "a", "l", "i", "c", "e">>

ToLower(ch) == IF ch = "E" THEN "e" ELSE ch

\* message == "exit"
IsExitAnyCase(message) == [i \in 1..Len(message) |-> ToLower(message[i])] = ExitWord
IsExit(message) == message = ExitWord

\* What the user of connection c types as a name, and as messages.
NameText(c) == IF c = 1 THEN AlicePadded ELSE Bob
ChatTexts(c) ==
    IF c = 1 THEN {ExitWord, ExitPadded, ExitCaps, Blank} ELSE {ExitWord, Hello}

\* name, err := reader.ReadString('\n'); name = strings.TrimSpace(name)
ChatNameFetch(c) ==
    /\ cpc[c] = "Name"
    /\ Call(c, "GetHistory", Empty, Empty)
    /\ typed' = [typed EXCEPT ![c] = ReadString(NameText(c))]
    /\ clientName' = [clientName EXCEPT ![c] = TrimSpace(typed'[c])]
    /\ cpc' = [cpc EXCEPT ![c] = "Call"]
    /\ UNCHANGED <<proc, printed>>
ChatName(c) ==
    /\ client[c] = "connected"
    /\ cpc[c] = "Name"
    /\ typed' = [typed EXCEPT ![c] = ReadString(NameText(c))]
    /\ clientName' = [clientName EXCEPT ![c] = TrimSpace(typed'[c])]
    /\ cpc' = [cpc EXCEPT ![c] = "Loop"]
    /\ UNCHANGED <<proc, printed, server, mainPc, client, sess, hpc, call, local,
                   reply, ret, received, nCalls, obs>>

\* One turn of the loop with a message: the line is read and trimmed, it is
\* not "exit", and client.Call("ChatServer.SendMessage", args, &reply) sends
\* it with the name.
ChatSubmitNoWait(c) ==
    /\ cpc[c] \in {"Loop", "Call"}
    /\ client[c] = "connected"
    /\ hpc[c] \in {"none", "Req"}
    /\ nCalls < MaxCalls
    /\ \E text \in ChatTexts(c) :
           LET message == TrimSpace(ReadString(text))
               a == [name |-> clientName[c], message |-> message] IN
           /\ ~IsExit(message)
           /\ call' = [call EXCEPT ![c] = [method |-> "SendMessage",
                                           name |-> a.name, message |-> a.message]]
           /\ sent' = AddToBag(sent, a)
           /\ issued' = [issued EXCEPT ![c] = Append(@, a)]
           /\ typed' = [typed EXCEPT ![c] = ReadString(text)]
    /\ nCalls' = nCalls + 1
    /\ hpc' = [hpc EXCEPT ![c] = "Req"]
    /\ before' = [before EXCEPT ![c] = Returned]
    /\ cpc' = [cpc EXCEPT ![c] = "Call"]
    /\ UNCHANGED <<proc, clientName, printed, server, mainPc, client, sess, local,
                   reply, ret, received, applied, atLock, myIdx, pre, recvTag,
                   dropped>>
ChatSubmit(c) ==
    /\ cpc[c] = "Loop"
    /\ \E text \in ChatTexts(c) :
           LET message == TrimSpace(ReadString(text)) IN
           /\ ~IsExit(message)
           /\ Call(c, "SendMessage", clientName[c], message)
           /\ typed' = [typed EXCEPT ![c] = ReadString(text)]
    /\ cpc' = [cpc EXCEPT ![c] = "Call"]
    /\ UNCHANGED <<proc, clientName, printed>>

\* for _, msg := range reply.History { fmt.Println(msg) }: the lines written
\* from the first i - 1 entries of h on, out being what was written before.
RECURSIVE PrintLines(_, _, _)
PrintLines(out, h, i) ==
    IF i > Len(h) THEN out ELSE PrintLines(Append(out, h[i]), h, i + 1)

\* The header and the footer fmt.Println writes around the lines.
Header == <<"--- Chat History ---">>
Footer == <<"--------------------">>

\* What the client writes after a call that returned nil.
PrintHistoryAll(old, h) ==
    LET prev == IF Len(old) >= 2 THEN SubSeq(old, 2, Len(old) - 1) ELSE <<>> IN
    PrintLines(<<Header>> \o prev, h, 1) \o <<Footer>>
PrintHistory(old, h) == PrintLines(<<Header>>, h, 1) \o <<Footer>>

\* client.Call has returned nil: the client prints the reply and goes back
\* to the prompt.
ChatPrint(c) ==
    /\ cpc[c] = "Call"
    /\ client[c] = "connected"
    /\ hpc[c] = "none"
    /\ printed' = [printed EXCEPT ![c] = PrintHistory(@, received[c])]
    /\ cpc' = [cpc EXCEPT ![c] = "Loop"]
    /\ UNCHANGED <<proc, clientName, typed, server, mainPc, client, sess, hpc, call,
                   local, reply, ret, received, nCalls, obs>>

\* One turn of the loop with "exit": the line is read and trimmed, the loop
\* is left, and the deferred client.Close() runs as main returns.
ChatQuitSend(c) ==
    /\ cpc[c] = "Loop"
    /\ \E text \in ChatTexts(c) :
           LET message == TrimSpace(ReadString(text)) IN
           /\ IsExit(message)
           /\ Call(c, "SendMessage", clientName[c], message)
           /\ typed' = [typed EXCEPT ![c] = ReadString(text)]
    /\ cpc' = [cpc EXCEPT ![c] = "Call"]
    /\ UNCHANGED <<proc, clientName, printed>>
ChatQuit(c) ==
    /\ cpc[c] = "Loop"
    /\ client[c] = "connected"
    /\ hpc[c] = "none"
    /\ \E text \in ChatTexts(c) :
           LET message == TrimSpace(ReadString(text)) IN
           /\ IsExit(message)
           /\ typed' = [typed EXCEPT ![c] = ReadString(text)]
    /\ cpc' = [cpc EXCEPT ![c] = "Done"]
    /\ client' = [client EXCEPT ![c] = "exited"]
    /\ received' = [received EXCEPT ![c] = <<>>]
    /\ recvTag' = [recvTag EXCEPT ![c] = NoTag]
    /\ before' = [before EXCEPT ![c] = {}]
    /\ UNCHANGED <<proc, clientName, printed, server, mainPc, sess, hpc, call, local,
                   reply, ret, nCalls, sent, applied, atLock, myIdx, pre, issued,
                   dropped>>

\* reader.ReadString returns an error, the input having ended: log.Fatal
\* ends the process, and with it the connection.
ChatEof(c) ==
    /\ client[c] = "connected"
    /\ hpc[c] = "none"
    /\ cpc[c] \in {"Name", "Loop"}
    /\ cpc' = [cpc EXCEPT ![c] = "Fatal"]
    /\ client' = [client EXCEPT ![c] = "exited"]
    /\ received' = [received EXCEPT ![c] = <<>>]
    /\ recvTag' = [recvTag EXCEPT ![c] = NoTag]
    /\ before' = [before EXCEPT ![c] = {}]
    /\ UNCHANGED <<proc, clientName, typed, printed, server, mainPc, sess, hpc, call,
                   local, reply, ret, nCalls, sent, applied, atLock, myIdx, pre,
                   issued, dropped>>

\* The server with chat clients as its callers.
NextChat ==
    \/ ListenOk
    \/ \E c \in Conns : AcceptOk(c)
    \/ \E c \in Conns : SessionEnd(c)
    \/ \E c \in Conns : Dial(c)
    \/ \E c \in Conns : ChatName(c)
    \/ \E c \in Conns : ChatSubmit(c)
    \/ \E c \in Conns : ChatPrint(c)
    \/ \E c \in Conns : ChatQuit(c)
    \/ \E c \in Conns : ChatEof(c)
    \/ \E c \in Conns : ReadRequest(c)
    \/ \E c \in Conns : SendLock(c)
    \/ \E c \in Conns : AppendRead(c)
    \/ \E c \in Conns : AppendStore(c)
    \/ \E c \in Conns : SendCopy(c)
    \/ \E c \in Conns : SendReturn(c)
    \/ \E c \in Conns : Deliver(c)

SpecChat == Init /\ [][NextChat]_vars

\* client, err := rpc.Dial("tcp", "localhost:1234") returns an error:
\* log.Fatal ends the client before it has a connection.
DialFail(c) ==
    /\ client[c] = "start"
    /\ \A d \in Conns : d < c => client[d] # "start"
    /\ client' = [client EXCEPT ![c] = "failed"]
    /\ UNCHANGED <<proc, chat, server, mainPc, sess, hpc, call, local, reply, ret,
                   received, nCalls, obs>>

\* The server with chat clients whose connect may fail and whose connection
\* may break while a call is on its way: a connection that breaks between two
\* calls is noticed by the client at its next call.
NextChatFail ==
    \/ ListenOk
    \/ \E c \in Conns : AcceptOk(c)
    \/ \E c \in Conns : SessionEnd(c)
    \/ \E c \in Conns : Dial(c)
    \/ \E c \in Conns : ChatName(c)
    \/ \E c \in Conns : ChatSubmit(c)
    \/ \E c \in Conns : ChatPrint(c)
    \/ \E c \in Conns : ChatQuit(c)
    \/ \E c \in Conns : ReadRequest(c)
    \/ \E c \in Conns : SendLock(c)
    \/ \E c \in Conns : AppendRead(c)
    \/ \E c \in Conns : AppendStore(c)
    \/ \E c \in Conns : SendCopy(c)
    \/ \E c \in Conns : SendReturn(c)
    \/ \E c \in Conns : Deliver(c)
    \/ \E c \in Conns : DialFail(c)
    \/ \E c \in Conns : hpc[c] # "none" /\ Drop(c)
    \/ \E c \in Conns : LoseRequest(c)
    \/ \E c \in Conns : LoseReply(c)
    \/ \E c \in Conns : SessionAbort(c)

SpecChatFail == Init /\ [][NextChatFail]_vars

(* ------------------ the server process is started again ---------------- *)

\* The server process ends and is started again, at most MaxBoots times:
\* main runs from its first line, server := new(ChatServer) is a ChatServer
\* with a nil history and an unlocked mutex.  The goroutines of the process
\* that ended are gone with its memory, its connections are broken and their
\* callers end at the error.  The observations of calls start again with
\* the process; what was submitted stays recorded.
RestartReload ==
    /\ mainPc # "Listen"
    /\ boots < MaxBoots
    /\ boots' = boots + 1
    /\ listenErr' = FALSE
    /\ history' = history
    /\ mu' = FALSE
    /\ auditLog' = <<>>
    /\ mainPc' = "Listen"
    /\ sess' = [c \in Conns |->
                   IF sess[c] \in {"backlog", "serving"} THEN "ended" ELSE sess[c]]
    /\ client' = [c \in Conns |->
                     IF client[c] = "connected" THEN "failed" ELSE client[c]]
    /\ hpc' = [c \in Conns |-> "none"]
    /\ call' = [c \in Conns |-> NoCall]
    /\ local' = [c \in Conns |-> <<>>]
    /\ reply' = [c \in Conns |-> <<>>]
    /\ ret' = [c \in Conns |-> "none"]
    /\ received' = [c \in Conns |-> <<>>]
    /\ applied' = <<>>
    /\ atLock' = [c \in Conns |-> 0]
    /\ myIdx' = [c \in Conns |-> 0]
    /\ pre' = [c \in Conns |-> <<>>]
    /\ before' = [c \in Conns |-> {}]
    /\ recvTag' = [c \in Conns |-> NoTag]
    /\ dropped' = {}
    /\ UNCHANGED <<chat, nCalls, sent, issued>>
Restart ==
    /\ mainPc # "Listen"
    /\ boots < MaxBoots
    /\ boots' = boots + 1
    /\ listenErr' = FALSE
    /\ history' = <<>>
    /\ mu' = FALSE
    /\ auditLog' = <<>>
    /\ mainPc' = "Listen"
    /\ sess' = [c \in Conns |->
                   IF sess[c] \in {"backlog", "serving"} THEN "ended" ELSE sess[c]]
    /\ client' = [c \in Conns |->
                     IF client[c] = "connected" THEN "failed" ELSE client[c]]
    /\ hpc' = [c \in Conns |-> "none"]
    /\ call' = [c \in Conns |-> NoCall]
    /\ local' = [c \in Conns |-> <<>>]
    /\ reply' = [c \in Conns |-> <<>>]
    /\ ret' = [c \in Conns |-> "none"]
    /\ received' = [c \in Conns |-> <<>>]
    /\ applied' = <<>>
    /\ atLock' = [c \in Conns |-> 0]
    /\ myIdx' = [c \in Conns |-> 0]
    /\ pre' = [c \in Conns |-> <<>>]
    /\ before' = [c \in Conns |-> {}]
    /\ recvTag' = [c \in Conns |-> NoTag]
    /\ dropped' = {}
    /\ UNCHANGED <<chat, nCalls, sent, issued>>

\* Callers that submit to a server that may be started again.
NextRestart ==
    \/ ListenOk
    \/ \E c \in Conns : AcceptOk(c)
    \/ \E c \in Conns : Dial(c)
    \/ \E c \in Conns : CallSendMessage(c)
    \/ \E c \in Conns : ReadRequest(c)
    \/ \E c \in Conns : SendLock(c)
    \/ \E c \in Conns : AppendRead(c)
    \/ \E c \in Conns : AppendStore(c)
    \/ \E c \in Conns : SendCopy(c)
    \/ \E c \in Conns : SendReturn(c)
    \/ \E c \in Conns : Deliver(c)
    \/ Restart

SpecRestart == Init /\ [][NextRestart]_vars

(* ------------------- definitions used by the properties ---------------- *)

\* The line a submission (name, message) is to produce, written out on its own.
LineOf(a) == a.name \o <<":", " ">> \o a.message
LinesOf(s) == [i \in DOMAIN s |-> LineOf(s[i])]

AliceHi  == <<"a", "l", "i", "c", "e", ":", " ", "h", "i">>
BobHello == <<"b", "o", "b", ":", " ", "h", "e", "l", "l", "o">>
ColonSpace == <<":", " ">>

\* x is name, then a colon and a space, then message, element by element.
IsLine(x, name, message) ==
    /\ Len(x) = Len(name) + 2 + Len(message)
    /\ \A i \in 1..Len(name) : x[i] = name[i]
    /\ x[Len(name) + 1] = ":"
    /\ x[Len(name) + 2] = " "
    /\ \A i \in 1..Len(message) : x[Len(name) + 2 + i] = message[i]

PrefixOf(s, t) == Len(s) <= Len(t) /\ \A i \in 1..Len(s) : s[i] = t[i]
Count(s, x) == Cardinality({i \in DOMAIN s : s[i] = x})

RECURSIVE SumSent(_)
SumSent(S) ==
    IF S = {} THEN 0
    ELSE LET a == CHOOSE x \in S : TRUE IN sent[a] + SumSent(S \ {a})
TotalSent == SumSent(DOMAIN sent)

\* s holds the lines of the submitted calls, each as often as it was submitted.
IsPermOfSent(s) ==
    /\ Len(s) = TotalSent
    /\ \A a \in DOMAIN sent :
           Count(s, LineOf(a)) = SumSent({b \in DOMAIN sent : LineOf(b) = LineOf(a)})

IsSend(c) == call[c].method = "SendMessage"
IsGet(c)  == call[c].method = "GetHistory"
\* The handler of c has filled its reply.
Replied(c) == hpc[c] \in {"Unlock", "Reply"}
NoSendInFlight == \A c \in Conns : hpc[c] # "none" => IsGet(c)
\* The Fetch of c was issued when every Submit issued so far had been answered.
FetchAfterAll(c) == IsGet(c) /\ Replied(c) /\ Cardinality(before[c]) = TotalSent

(* ------------------------------ properties ----------------------------- *)

\* C1: once all N submitted calls have completed, the transcript has exactly
\* N lines and is a permutation of their N lines name + ": " + message, and
\* a Fetch issued after that returns exactly those N lines.
C1_AllSubmitsKept ==
    NoSendInFlight =>
        /\ IsPermOfSent(history)
        /\ \A c \in Conns : FetchAfterAll(c) => IsPermOfSent(reply[c])

\* Two Submits from two connections are both in the transcript, the one of the
\* connection dialled second first, and a later Fetch has returned both.
C1_Witness ==
    /\ NoSendInFlight
    /\ history = <<BobHello, AliceHi>>
    /\ \E c \in Conns : FetchAfterAll(c) /\ hpc[c] = "Reply" /\ Len(reply[c]) = 2

\* C2: the reply of a Submit is the transcript as it was just before that
\* call's append followed by the call's own line, and holds no line that was
\* appended later.
C2_SubmitAtomic ==
    \A c \in Conns :
        IsSend(c) /\ Replied(c) =>
            /\ reply[c] = Append(pre[c], LineOf(call[c]))
            /\ Len(reply[c]) = myIdx[c]

\* A Submit's reply of two lines is still to be delivered while the transcript
\* already holds a third line.
C2_Witness ==
    \E c \in Conns :
        /\ IsSend(c) /\ hpc[c] = "Reply"
        /\ Len(reply[c]) = 2 /\ Len(history) = 3

\* C3: at most one call is inside its critical section, and then the mutex is
\* locked; the transcript is read and written only by the call that holds the
\* lock; a call that finds the mutex locked stays where it is.
C3_Inv ==
    /\ Cardinality({c \in Conns : InCS(c)}) <= 1
    /\ mu <=> (\E c \in Conns : InCS(c))
C3_Step ==
    /\ \A c \in Conns :
           hpc[c] = "Lock" /\ mu =>
               hpc'[c] = "Lock" /\ local'[c] = local[c] /\ reply'[c] = reply[c]
    /\ history' # history =>
           \E c \in Conns : InCS(c) /\ mu /\ hpc'[c] # hpc[c]
    /\ \A c \in Conns :
           hpc'[c] # hpc[c] /\ InCS(c) =>
               mu /\ \A d \in Conns : InCS(d) => d = c
C3_MutualExclusion == []C3_Inv /\ [][C3_Step]_vars

\* One call is inside its critical section while another waits for the lock.
C3_Witness ==
    \E c, d \in Conns : InCS(c) /\ hpc[c] = "Store" /\ hpc[d] = "Lock" /\ mu

\* C4: every step leaves the transcript a prefix of its next value.
C4_AppendOnly == [][PrefixOf(history, history')]_vars

\* Two lines are in the transcript, their connection has closed and its
\* session has ended, an accept has failed and a Fetch is on its way.
C4_Witness ==
    /\ Len(history) = 2
    /\ mainPc = "LogErr"
    /\ \E c, d \in Conns :
           /\ client[c] = "exited" /\ sess[c] = "ended"
           /\ IsGet(d) /\ hpc[d] = "Req"

\* C5: the reply of a Fetch is the lines of the appends completed when the
\* call took the lock, in order, and nothing else.
C5_FetchSnapshot ==
    \A c \in Conns :
        IsGet(c) /\ Replied(c) =>
            reply[c] = LinesOf(SubSeq(applied, 1, atLock[c]))

\* A Fetch has returned one line and a Submit has appended a second one since.
C5_Witness ==
    \E c \in Conns :
        IsGet(c) /\ hpc[c] = "Reply" /\ Len(reply[c]) = 1 /\ Len(history) = 2

\* The snapshots of Fetch calls at hand: a handler's filled reply, and the last
\* reply a caller received; each with the number of appends completed when
\* the call took the lock.
FetchSnaps ==
    {[stamp |-> atLock[c], snap |-> reply[c]] :
         c \in {d \in Conns : IsGet(d) /\ Replied(d)}}
    \cup
    {[stamp |-> recvTag[c].stamp, snap |-> received[c]] :
         c \in {d \in Conns : recvTag[d].method = "GetHistory"}}

\* C6: two Fetch calls with no append between their critical sections return
\* the same snapshot.
C6_IdempotentRead ==
    \A x, y \in FetchSnaps : x.stamp = y.stamp => x.snap = y.snap

\* One caller holds the one-line reply of a Fetch and the Fetch of another
\* connection has returned with no append in between.
C6_Witness ==
    \E c, d \in Conns :
        /\ c # d
        /\ recvTag[c].method = "GetHistory" /\ recvTag[c].stamp = 1
        /\ Len(received[c]) = 1
        /\ IsGet(d) /\ hpc[d] = "Reply" /\ atLock[d] = 1

\* C7: no step of a Fetch call changes the transcript or the audit log; of
\* the server's state it changes the mutex alone, locking it when it enters
\* and unlocking it when it returns.
C7_Step ==
    \A c \in Conns :
        IsGet(c) /\ hpc'[c] # hpc[c] =>
            /\ history' = history
            /\ auditLog' = auditLog
            /\ mu' # mu =>
                   \/ hpc[c] = "Lock" /\ mu'
                   \/ hpc[c] = "Unlock" /\ ~mu'
C7_FetchFrame == [][C7_Step]_vars

\* A Fetch of a transcript of two lines has been delivered.
C7_Witness ==
    \E c \in Conns :
        /\ recvTag[c].method = "GetHistory"
        /\ Len(history) = 2 /\ received[c] = history /\ ~mu

\* C8: of the steps of a Submit call, the store alone changes the transcript,
\* and it appends one line: the name, a colon, a space, the message, both
\* verbatim, whatever the two strings are.
C8_Step ==
    \A c \in Conns :
        IsSend(c) /\ hpc'[c] # hpc[c] =>
            IF hpc[c] = "Store"
            THEN /\ Len(history') = Len(history) + 1
                 /\ PrefixOf(history, history')
                 /\ IsLine(history'[Len(history')], call[c].name, call[c].message)
                 /\ call[c].name = Empty /\ call[c].message = Empty =>
                        history'[Len(history')] = ColonSpace
                 /\ call[c].name = Alice /\ call[c].message = Hi =>
                        history'[Len(history')] = AliceHi
            ELSE history' = history
C8_OneLinePerSubmit == [][C8_Step]_vars

\* Submit("alice", "hi") has appended its line after the line of Submit("", "").
C8_Witness ==
    \E c \in Conns :
        /\ IsSend(c) /\ hpc[c] = "Reply"
        /\ call[c].name = Alice /\ call[c].message = Hi
        /\ history = <<ColonSpace, AliceHi>>

\* C9: a handler that has returned has returned nil.
C9_NoHandlerError ==
    \A c \in Conns : hpc[c] = "Reply" => ret[c] = "nil"

\* Submit("", "") and a Fetch have both returned.
C9_Witness ==
    \E c, d \in Conns :
        /\ hpc[c] = "Reply" /\ IsSend(c) /\ call[c].name = Empty
        /\ call[c].message = Empty /\ ret[c] = "nil"
        /\ hpc[d] = "Reply" /\ IsGet(d) /\ ret[d] = "nil"

\* C10: the reply of a Submit ends with the call's own line and holds, before
\* it, the line of every Submit that had been answered when the call was issued.
C10_RealTimeOrder ==
    \A c \in Conns :
        IsSend(c) /\ Replied(c) =>
            /\ reply[c] # <<>>
            /\ reply[c][Len(reply[c])] = LineOf(call[c])
            /\ \A k \in before[c] :
                   \E i \in 1..(Len(reply[c]) - 1) : reply[c][i] = LineOf(applied[k])

\* Submit("alice", "hi") was answered before Submit("bob", "hello") was issued
\* on another connection, whose reply is the two lines in that order.
C10_Witness ==
    /\ hpc[2] = "Reply" /\ IsSend(2)
    /\ before[2] = {1}
    /\ reply[2] = <<AliceHi, BobHello>>

\* The places in applied of the appends made for connection c.
Places(c) == {k \in 1..Len(applied) : applied[k].conn = c}
\* The i-th smallest member of the set S of numbers.
Nth(S, i) == CHOOSE k \in S : Cardinality({j \in S : j <= k}) = i
\* The lines of the transcript at the places of c's appends, in transcript order.
OwnLines(c) == [i \in 1..Cardinality(Places(c)) |-> history[Nth(Places(c), i)]]
\* The Submit of c is on its way and has not appended yet.
SendPending(c) == IsSend(c) /\ hpc[c] # "none" /\ myIdx[c] = 0
\* The submissions of c whose append is due: all of them but a pending one.
Due(c) ==
    IF SendPending(c) THEN SubSeq(issued[c], 1, Len(issued[c]) - 1) ELSE issued[c]

\* C11: the lines of one connection stand in the transcript in the order in
\* which that connection issued its Submits, whatever stands between them;
\* when one connection alone has submitted, the transcript is exactly its
\* lines in call order.
C11_PerConnOrder ==
    /\ Len(history) = Len(applied)
    /\ \A c \in Conns :
           /\ OwnLines(c) = LinesOf(Due(c))
           /\ (\A d \in Conns \ {c} : issued[d] = <<>>) => history = LinesOf(Due(c))

\* The first connection has submitted ("alice", "hi") and then ("", ""), and
\* the line of the second connection stands between its two lines.
C11_Witness ==
    /\ history = <<AliceHi, BobHello, ColonSpace>>
    /\ Places(1) = {1, 3}
    /\ Len(issued[1]) = 2 /\ issued[1][2].name = Empty
    /\ \A c \in Conns : hpc[c] = "none"

\* One connection alone has issued MaxCalls Submits, all answered.
C11_SingleConn ==
    /\ Len(issued[1]) = MaxCalls /\ hpc[1] = "none"
    /\ \A c \in Conns \ {1} : client[c] = "start"
    /\ history[1] = AliceHi /\ history[MaxCalls] = ColonSpace

\* C12: the transcript is the lines of the appends in the order in which
\* their calls took the lock: the line of a Submit stands at the place one
\* past the number of appends completed when it took the lock, whichever
\* request arrived first; and the reply of each Submit is the transcript up
\* to its own line.
C12_LockOrder ==
    /\ Len(history) = Len(applied)
    /\ history = LinesOf(applied)
    /\ \A c \in Conns :
           IsSend(c) /\ myIdx[c] > 0 =>
               /\ myIdx[c] = atLock[c] + 1
               /\ history[myIdx[c]] = LineOf(call[c])
               /\ Replied(c) => reply[c] = SubSeq(history, 1, myIdx[c])
    /\ \A c, d \in Conns :
           /\ IsSend(c) /\ IsSend(d) /\ myIdx[c] > 0 /\ myIdx[d] > 0
           /\ atLock[c] < atLock[d]
           => myIdx[c] < myIdx[d]

\* The Submit of the second connection, whose request arrived last, took the
\* lock first: its line stands before the line of the first connection.
C12_Witness ==
    /\ IsSend(1) /\ IsSend(2) /\ hpc[1] = "Reply" /\ hpc[2] = "Reply"
    /\ 0 < myIdx[2] /\ myIdx[2] < myIdx[1]
    /\ history[myIdx[2]] = BobHello /\ history[myIdx[1]] = AliceHi

\* The other order of the same two calls: the request that arrived first
\* took the lock first.
C12_ArrivalOrder ==
    /\ IsSend(1) /\ IsSend(2) /\ hpc[1] = "Reply" /\ hpc[2] = "Reply"
    /\ 0 < myIdx[1] /\ myIdx[1] < myIdx[2]
    /\ history[myIdx[1]] = AliceHi /\ history[myIdx[2]] = BobHello

\* C13: a reply that a handler has filled keeps its contents and its length
\* through every step until it is delivered, appends of other calls
\* included; what the caller holds changes only when a reply is delivered to
\* it, and is then that reply as the handler filled it, or when the caller's
\* process ends.
C13_Step ==
    \A c \in Conns :
        /\ Replied(c) /\ hpc'[c] \in {"Unlock", "Reply"} => reply'[c] = reply[c]
        /\ received'[c] # received[c] =>
               \/ hpc[c] = "Reply" /\ hpc'[c] = "none" /\ received'[c] = reply[c]
               \/ client'[c] = "exited"
C13_SnapshotIsCopy == [][C13_Step]_vars

\* A caller holds the one-line reply of its first Submit and the one-line
\* reply of a Fetch awaits delivery, while the caller's second Submit has
\* made the transcript two lines long.
C13_Witness ==
    \E c, d \in Conns :
        /\ recvTag[c].method = "SendMessage" /\ Len(received[c]) = 1
        /\ IsSend(c) /\ myIdx[c] = 2
        /\ IsGet(d) /\ hpc[d] = "Reply" /\ Len(reply[d]) = 1
        /\ Len(history) = 2

\* The snapshots at hand whose call took the lock when at least k appends
\* were completed: filled replies and what the callers hold.
SnapsFrom(k) ==
    {reply[d] : d \in {e \in Conns : Replied(e) /\ atLock[e] >= k}}
    \cup
    {received[d] : d \in {e \in Conns : recvTag[e].method # "none"
                                         /\ recvTag[e].stamp >= k}}

\* C14: the line of a Submit whose reply was lost with its connection stays
\* in the transcript at its place and is in every snapshot taken after its
\* append, while its caller has ended and holds no reply.
C14_DroppedStays ==
    /\ Len(history) = Len(applied)
    /\ \A k \in dropped :
           /\ k \in 1..Len(history)
           /\ history[k] = LineOf(applied[k])
           /\ \A snap \in SnapsFrom(k) : Len(snap) >= k /\ snap[k] = LineOf(applied[k])
           /\ client[applied[k].conn] = "failed"
           /\ recvTag[applied[k].conn] = NoTag

\* The reply of the first connection's Submit("alice", "hi") was lost, and the
\* second connection holds the two-line reply of its later Submit.
C14_Witness ==
    /\ dropped = {1} /\ applied[1].conn = 1
    /\ client[2] = "connected"
    /\ recvTag[2].method = "SendMessage"
    /\ received[2] = <<AliceHi, BobHello>>

\* C15: a call whose handler has been started returns to its caller or is
\* given up with its broken connection: it does not wait for the lock for
\* ever, although other connections go on calling.
C15_CallsComplete ==
    \A c \in Conns : (hpc[c] = "Lock") ~> (hpc[c] = "none")

\* A call waits for the lock that another call holds after all the counted
\* calls have been issued, while the callers go on polling.
C15_Witness ==
    \E c, d \in Conns :
        /\ hpc[c] = "Lock" /\ InCS(d) /\ mu
        /\ nCalls = MaxCalls
        /\ IsGet(d) /\ before[d] # {}

\* The oldest connection waiting in the listen queue, if there is one.
Pending(s) == {c \in Conns : s[c] = "backlog" /\ \A d \in Conns : d < c => s[d] # "backlog"}

\* C16: once it listens, main is in its accept loop for ever, whatever accept
\* returns; a failing accept and the logging of its error change neither the
\* transcript nor any session, call or caller; and after the error is logged
\* main is accepting again with the connection still waiting to be accepted.
C16_Step ==
    /\ mainPc \in {"Accept", "LogErr"} => mainPc' \in {"Accept", "LogErr"}
    /\ mainPc' # mainPc /\ (mainPc = "LogErr" \/ mainPc' = "LogErr") =>
           /\ history' = history /\ mu' = mu /\ auditLog' = auditLog
           /\ sess' = sess /\ hpc' = hpc /\ call' = call /\ local' = local
           /\ reply' = reply /\ ret' = ret
           /\ client' = client /\ received' = received
    /\ mainPc = "LogErr" /\ mainPc' # mainPc =>
           mainPc' = "Accept" /\ Pending(sess') # {}
C16_AcceptErrNotFatal == [][C16_Step]_vars

\* An accept has failed while the session of an earlier connection is in the
\* middle of a SendMessage call that holds the lock and one line is in the
\* transcript; the connection that was not accepted is waiting.
C16_Witness ==
    /\ mainPc = "LogErr"
    /\ \E c, d \in Conns :
           /\ sess[c] = "serving" /\ hpc[c] = "Copy" /\ IsSend(c)
           /\ sess[d] = "backlog"
    /\ Len(history) = 2

\* C17: while main is at Accept the oldest waiting connection can be
\* accepted, whatever the sessions of the earlier connections are doing; the
\* step that gives a connection its session leaves main at Accept and
\* touches no other session.
C17_Inv ==
    mainPc = "Accept" => \A c \in Pending(sess) : ENABLED AcceptOk(c)
C17_Step ==
    \A c \in Conns :
        sess[c] = "backlog" /\ sess'[c] = "serving" =>
            /\ mainPc = "Accept" /\ mainPc' = "Accept"
            /\ \A d \in Conns \ {c} : sess'[d] = sess[d]
            /\ hpc' = hpc
C17_AcceptDoesNotWait == []C17_Inv /\ [][C17_Step]_vars

\* Every connection has an open session at once: the last one was accepted
\* and has not called yet, the others are in calls, one holding the lock
\* with its second Submit.
C17_Witness ==
    /\ \A c \in Conns : sess[c] = "serving" /\ client[c] = "connected"
    /\ hpc[MaxConns] = "none" /\ issued[MaxConns] = <<>>
    /\ recvTag[MaxConns] = NoTag
    /\ \A c \in Conns \ {MaxConns} : hpc[c] # "none"
    /\ hpc[1] = "Store" /\ Len(issued[1]) = 2

\* The life of a connection's session, and the path of one call through it.
SessionEdges ==
    {<<"none", "backlog">>, <<"backlog", "serving">>, <<"serving", "ended">>}
CallEdges ==
    {<<"none", "Req">>, <<"Req", "Lock">>, <<"Lock", "Append">>, <<"Lock", "Copy">>,
     <<"Append", "Store">>, <<"Store", "Copy">>, <<"Copy", "Unlock">>,
     <<"Unlock", "Reply">>, <<"Reply", "none">>}

\* C18: a connection is given a session once and never again; the session
\* ends only when its caller has closed and no call of it is left; a call is
\* run only by the open session of its own connection, as the caller of that
\* connection sent it, along the one path from request to reply, so once;
\* and nothing is run or appended for a connection whose session has ended.
C18_Step ==
    \A c \in Conns :
        /\ sess'[c] # sess[c] => <<sess[c], sess'[c]>> \in SessionEdges
        /\ sess'[c] = "ended" /\ sess[c] # "ended" =>
               client[c] = "exited" /\ hpc[c] = "none"
        /\ hpc'[c] # hpc[c] => <<hpc[c], hpc'[c]>> \in CallEdges
        /\ hpc'[c] # hpc[c] /\ hpc[c] # "none" => sess[c] = "serving"
        /\ hpc[c] # "none" /\ hpc'[c] # "none" => call'[c] = call[c]
        /\ hpc[c] = "Req" /\ hpc'[c] = "Lock" /\ IsSend(c) =>
               /\ issued[c] # <<>>
               /\ issued[c][Len(issued[c])] =
                      [name |-> call[c].name, message |-> call[c].message]
        /\ Places(c)' # Places(c) => hpc[c] = "Store" /\ sess[c] = "serving"
        /\ sess[c] = "ended" => hpc'[c] = "none" /\ client'[c] = "exited"
C18_Inv ==
    \A c \in Conns :
        /\ Cardinality(Places(c)) <= Len(issued[c])
        /\ sess[c] = "ended" => hpc[c] = "none"
C18_OneSessionPerConn == []C18_Inv /\ [][C18_Step]_vars

\* The session of a connection has ended after it ran that connection's two
\* Submits, and the session of the other connection is running a call.
C18_Witness ==
    \E c, d \in Conns :
        /\ sess[c] = "ended" /\ client[c] = "exited"
        /\ Cardinality(Places(c)) = 2 /\ Len(issued[c]) = 2
        /\ sess[d] = "serving" /\ hpc[d] = "Append"

\* The step is a turn of the chat loop of c: it ends in a call or in leaving.
QuitStep(c)   == client[c] = "connected" /\ client'[c] = "exited" /\ cpc'[c] = "Done"
SubmitStep(c) == hpc[c] = "none" /\ hpc'[c] = "Req"
Turn(c)       == cpc[c] = "Loop" /\ (QuitStep(c) \/ SubmitStep(c))
\* What the user entered on the line read last: the line without its newline.
Entered(c) == SubSeq(typed[c], 1, Len(typed[c]) - 1)

AliceExitCaps == <<"a", "l", "i", "c", "e", ":", " ", "E", "x", "i", "t">>
AliceNothing  == <<"a", "l", "i", "c", "e", ":", " ">>

\* C19: a turn of the loop on the quit value ends with the connection
\* closed and no call issued, and changes neither the transcript nor what
\* has been submitted; a client that has left issues no call; and no
\* submission and no line carries the quit value as its message.
C19_Step ==
    \A c \in Conns :
        /\ Turn(c) /\ TrimSpace(typed'[c]) = ExitWord =>
               /\ client'[c] = "exited" /\ hpc'[c] = "none"
               /\ history' = history /\ call' = call /\ nCalls' = nCalls
               /\ issued' = issued /\ sent' = sent
        /\ client[c] = "exited" =>
               client'[c] = "exited" /\ hpc'[c] = "none" /\ issued'[c] = issued[c]
C19_Inv ==
    /\ Len(history) = Len(applied)
    /\ \A k \in 1..Len(applied) :
           /\ applied[k].message # ExitWord
           /\ history[k] # applied[k].name \o <<":", " ", "e", "x", "i", "t">>
    /\ \A c \in Conns : \A i \in 1..Len(issued[c]) : issued[c][i].message # ExitWord
C19_QuitSendsNothing == []C19_Inv /\ [][C19_Step]_vars

\* The first client submitted "Exit", got its reply and then left on "exit":
\* the transcript is the one line of the submission.
C19_Witness ==
    /\ cpc[1] = "Done" /\ client[1] = "exited"
    /\ typed[1] = <<"e", "x", "i", "t", "\n">>
    /\ history = <<AliceExitCaps>>
    /\ nCalls = 1

\* C20 as stated: a turn of the loop leaves only on an input that is the
\* quit value itself; on any other input it issues a Submit.
C20_ExactCompare ==
    [][\A c \in Conns : Turn(c) /\ Entered(c)' # ExitWord => SubmitStep(c)]_vars

\* C20, amended: the input is trimmed of its surrounding white space and then
\* compared with the quit value exactly and with regard to case.  A turn
\* leaves if and only if the trimmed input is the quit value, so also on the
\* quit value with white space around it; on every other input, one that is
\* all white space and one that differs in case included, it issues a
\* Submit of the name and the trimmed input.
C20_Step ==
    \A c \in Conns :
        Turn(c) =>
            /\ IF TrimSpace(typed'[c]) = ExitWord
               THEN QuitStep(c) /\ ~SubmitStep(c)
               ELSE /\ SubmitStep(c) /\ ~QuitStep(c)
                    /\ call'[c] = [method |-> "SendMessage", name |-> clientName[c],
                                   message |-> TrimSpace(typed'[c])]
            /\ Entered(c)' = ExitPadded => QuitStep(c)
            /\ Entered(c)' = ExitCaps => SubmitStep(c) /\ call'[c].message = ExitCaps
            /\ Entered(c)' = Blank => SubmitStep(c) /\ call'[c].message = Empty
C20_TrimmedCompare == [][C20_Step]_vars

\* The first client submitted "Exit", then a line of one space, whose call
\* with the empty message has appended its line, and then it left on the quit
\* value with a space on either side.
C20_Witness ==
    /\ history = <<AliceExitCaps, AliceNothing>>
    /\ cpc[1] = "Done" /\ client[1] = "exited"
    /\ typed[1] = <<" ", "e", "x", "i", "t", " ", "\n">>

\* C21: a client whose connect failed has issued no call and has no session;
\* a client that has failed issues no call any more and stays failed; a
\* Submit is issued only by a turn of the loop, one for the line just read;
\* and the transcript holds at most one line for each Submit a client
\* issued, in the order of issue, also when the reply or the request was
\* lost with the connection.
C21_Inv ==
    \A c \in Conns :
        /\ client[c] = "failed" /\ sess[c] = "none" =>
               issued[c] = <<>> /\ hpc[c] = "none" /\ cpc[c] = "Name"
        /\ Cardinality(Places(c)) <= Len(issued[c])
        /\ Len(history) = Len(applied)
        /\ Len(history) = Len(applied) => PrefixOf(OwnLines(c), LinesOf(issued[c]))
C21_Step ==
    \A c \in Conns :
        /\ client[c] = "failed" =>
               /\ client'[c] = "failed"
               /\ issued'[c] = issued[c]
               /\ ~SubmitStep(c)
        /\ issued'[c] # issued[c] =>
               /\ Turn(c)
               /\ issued'[c] = Append(issued[c],
                                       [name |-> clientName[c],
                                        message |-> TrimSpace(typed'[c])])
        /\ SubmitStep(c) => Len(issued'[c]) = Len(issued[c]) + 1
C21_FailureIsFatal == []C21_Inv /\ [][C21_Step]_vars
C21_Witness ==
    /\ client[1] = "failed" /\ sess[1] # "none" /\ hpc[1] = "none"
    /\ dropped = {1}
    /\ Len(issued[1]) = 1
    /\ history = LinesOf(issued[1])
    /\ client[2] = "failed" /\ sess[2] = "none"

\* C22: the transcript is the lines of all the appends completed since the
\* process started, in order and nothing else: the line of every completed
\* append is at its place, whether its caller is still connected, has
\* left or has lost its connection, and whether its session has ended.
C22_CompleteHistory ==
    /\ Len(history) = Len(applied)
    /\ \A c \in Conns : \A k \in Places(c) :
           /\ k <= Len(history)
           /\ k <= Len(history) => history[k] = Format(applied[k].name, applied[k].message)
C22_Witness ==
    /\ client[1] = "exited" /\ sess[1] = "ended"
    /\ client[2] = "failed" /\ sess[2] = "ended"
    /\ Places(1) # {} /\ Places(2) # {}
    /\ Len(history) = Len(applied)

\* C23: a start of the server process leaves an empty transcript, whatever
\* the transcript of the process before it held; the transcript of a process
\* is the lines appended by that process alone; and the Submit that appends
\* first in a process replies with its own line and nothing else.
C23_Inv ==
    /\ Len(history) = Len(applied)
    /\ \A c \in Conns :
           IsSend(c) /\ Replied(c) /\ myIdx[c] = 1 =>
               reply[c] = <<Format(call[c].name, call[c].message)>>
C23_Step == boots' # boots => history' = <<>> /\ mu' = FALSE /\ mainPc' = "Listen"
C23_EmptyAfterRestart == []C23_Inv /\ [][C23_Step]_vars
C23_Witness ==
    /\ boots = 1
    /\ TotalSent = 2
    /\ IsSend(2) /\ hpc[2] = "Reply"
    /\ Len(reply[2]) = 1
    /\ client[1] = "failed" /\ Len(issued[1]) = 1

\* The Submits of c that have been answered.
Answered(c) == Cardinality(Places(c) \cap Returned)
\* The calls c has issued and has no answer to.
Outstanding(c) == Len(issued[c]) - Answered(c)

\* C24: a connected client has at most one call without an answer, and has
\* one exactly while its call is on its way; a client at its prompt, where it
\* issues its next call, has none, and holds the reply of its last call,
\* which ends with the line of that call; a client that has failed is never
\* at its prompt again.
C24_Sequential ==
    \A c \in Conns :
        /\ client[c] = "connected" =>
               /\ Outstanding(c) \in {0, 1}
               /\ Outstanding(c) = 1 <=> hpc[c] # "none"
               /\ hpc[c] # "none" => cpc[c] = "Call"
        /\ client[c] = "connected" /\ cpc[c] = "Loop" =>
               /\ hpc[c] = "none"
               /\ issued[c] # <<>> =>
                      /\ received[c] # <<>>
                      /\ received[c] # <<>> =>
                             received[c][Len(received[c])]
                                 = LineOf(issued[c][Len(issued[c])])
        /\ client[c] = "failed" => cpc[c] \in {"Name", "Call"}
C24_Witness ==
    \E c \in Conns :
        /\ client[c] = "connected"
        /\ Len(issued[c]) = 2
        /\ hpc[c] = "Copy"
        /\ Answered(c) = 1
        /\ received[c] # <<>>

\* The connection of c is opened, accepted or closed, or its caller leaves.
ConnEvent(c) == client'[c] # client[c] \/ sess'[c] # sess[c]
\* The step leaves the call, the handler, the reply, the caller and the
\* session of d as they are.
SameSession(d) ==
    /\ client'[d] = client[d] /\ sess'[d] = sess[d]
    /\ hpc'[d] = hpc[d] /\ call'[d] = call[d]
    /\ local'[d] = local[d] /\ reply'[d] = reply[d] /\ ret'[d] = ret[d]
    /\ received'[d] = received[d]

\* C25: a step that opens, accepts or closes a connection, or in which a
\* caller leaves, changes neither the transcript nor the lock, and leaves
\* every other connection's caller, session, call and reply as they are; so
\* does every step of main, an accept error and its logging among them, for
\* all connections but the one it accepts.
C25_Step ==
    /\ \A c \in Conns :
           ConnEvent(c) =>
               /\ history' = history /\ mu' = mu /\ auditLog' = auditLog
               /\ \A d \in Conns \ {c} : SameSession(d)
               /\ hpc'[c] = hpc[c] /\ call'[c] = call[c] /\ reply'[c] = reply[c]
    /\ mainPc' # mainPc =>
           /\ history' = history /\ mu' = mu /\ auditLog' = auditLog
           /\ \A d \in Conns : SameSession(d)
C25_SessionsApart == [][C25_Step]_vars
C25_Witness ==
    /\ client[1] = "exited" /\ sess[1] = "ended"
    /\ sess[2] = "serving" /\ hpc[2] = "Reply"
    /\ Len(reply[2]) = 2
    /\ history = reply[2]

\* C26: the audit log has one entry for each completed append and no other,
\* the k-th entry holding the name and the message of the k-th append and
\* the number k; the entry of a call is there as soon as its append is,
\* while the call holds the lock; the number in the entry of a Submit is the
\* length of the snapshot that Submit returns; and a Fetch, whatever its
\* position, has added none.
C26_Inv ==
    /\ Len(auditLog) = Len(applied)
    /\ Len(auditLog) = Len(history)
    /\ \A k \in 1..Len(auditLog) :
           k <= Len(applied) =>
               auditLog[k] = [name |-> applied[k].name,
                              message |-> applied[k].message, n |-> k]
    /\ \A c \in Conns :
           /\ IsSend(c) /\ myIdx[c] > 0 =>
                  /\ myIdx[c] <= Len(auditLog)
                  /\ InCS(c) => mu
           /\ IsSend(c) /\ Replied(c) /\ myIdx[c] \in 1..Len(auditLog) =>
                  Len(reply[c]) = auditLog[myIdx[c]].n
           /\ IsGet(c) => myIdx[c] = 0
C26_Step ==
    auditLog' # auditLog =>
        /\ mu /\ mu'
        /\ \E c \in Conns :
               /\ IsSend(c) /\ hpc[c] = "Store" /\ hpc'[c] = "Copy"
               /\ auditLog' = Append(auditLog,
                                      [name |-> call[c].name,
                                       message |-> call[c].message,
                                       n |-> Len(history')])
               /\ Len(history') = Len(history) + 1
C26_AuditLog == []C26_Inv /\ [][C26_Step]_vars
C26_Witness ==
    /\ Len(auditLog) = 2
    /\ \E c \in Conns : IsSend(c) /\ hpc[c] = "Unlock" /\ myIdx[c] = 2 /\ Len(reply[c]) = 2
    /\ \E c \in Conns : IsGet(c) /\ hpc[c] = "Lock"

\* The lines c printed between the header and the footer.
Body(c) == SubSeq(printed[c], 2, Len(printed[c]) - 1)
\* The place in the transcript of the last append of c.
LastPlace(c) == CHOOSE k \in Places(c) : \A j \in Places(c) : j <= k

\* C27: a client that is back at its prompt after a Submit, or has stopped
\* there, has printed the header, then the lines of the appends up to and
\* including its own last one, each once and in transcript order, then the
\* footer, and nothing else; a client that has had no reply has printed
\* nothing.
C27_PrintsSnapshot ==
    \A c \in Conns :
        /\ issued[c] = <<>> => printed[c] = <<>>
        /\ cpc[c] \in {"Loop", "Done", "Fatal"} /\ issued[c] # <<>> =>
               /\ Places(c) # {}
               /\ Len(printed[c]) >= 2
               /\ Places(c) # {} /\ Len(printed[c]) >= 2 =>
                      /\ printed[c][1] = Header
                      /\ printed[c][Len(printed[c])] = Footer
                      /\ Body(c) = LinesOf(SubSeq(applied, 1, LastPlace(c)))
                      /\ Body(c)[Len(Body(c))] = LineOf(issued[c][Len(issued[c])])
C27_Witness ==
    \E c \in Conns :
        /\ cpc[c] = "Loop"
        /\ Len(issued[c]) = 2
        /\ Len(printed[c]) = 5
        /\ Body(c) = history

\* C28: when net.Listen has failed the process is at its end: nothing has been
\* accepted, served, called or appended, no caller has a connection, and
\* neither an accept nor a connect can follow; whereas after a failed
\* accept net.Listen had succeeded and main goes on to accept again.
C28_ListenFatal ==
    /\ listenErr =>
           /\ mainPc = "Fatal"
           /\ history = <<>> /\ auditLog = <<>> /\ nCalls = 0
           /\ \A c \in Conns :
                  sess[c] = "none" /\ client[c] = "start" /\ hpc[c] = "none"
           /\ ~ENABLED (\E c \in Conns : AcceptOk(c) \/ Dial(c))
           /\ ~ENABLED (AcceptErr \/ ListenOk)
    /\ mainPc = "LogErr" => ~listenErr /\ ENABLED LogAcceptErr
    /\ mainPc = "Fatal" => listenErr
C28_Witness == listenErr /\ mainPc = "Fatal" /\ ~ENABLED Next

\* The snapshots at hand: the replies handlers have filled and the replies
\* callers hold.
Snaps ==
    {reply[c] : c \in {d \in Conns : Replied(d)}}
    \cup {received[c] : c \in {d \in Conns : recvTag[d].method # "none"}}

\* C29: every snapshot a handler has filled or a caller holds, of a Submit or
\* of a Fetch, is a prefix of the transcript as it is now; so of any two
\* of them one is a prefix of the other.
C29_PrefixOrdered ==
    /\ \A s \in Snaps : PrefixOf(s, history)
    /\ \A s, t \in Snaps : PrefixOf(s, t) \/ PrefixOf(t, s)
C29_Witness ==
    /\ recvTag[1].method = "SendMessage" /\ Len(received[1]) = 1
    /\ IsGet(1) /\ hpc[1] = "Reply" /\ Len(reply[1]) = 2
    /\ IsSend(2) /\ hpc[2] = "Reply" /\ Len(reply[2]) = 2
    /\ reply[2][1] # reply[2][2]

\* The reply of the call of c reaches its caller.
Receives(c) == hpc[c] = "Reply" /\ hpc'[c] = "none" /\ client'[c] = "connected"

\* C30: the snapshot a caller receives begins with the snapshot it held
\* before, of whichever call; the one it receives from a Submit is longer
\* than the one it held and ends with the line of that Submit; and the one
\* it receives is what the handler of its call returned.
C30_Step ==
    \A c \in Conns :
        Receives(c) =>
            /\ received'[c] = reply[c]
            /\ PrefixOf(received[c], received'[c])
            /\ IsSend(c) =>
                   /\ Len(received'[c]) > Len(received[c])
                   /\ received'[c][Len(received'[c])]
                          = Format(call[c].name, call[c].message)
C30_MonotonicReads == [][C30_Step]_vars
C30_Witness ==
    \E c \in Conns :
        /\ client[c] = "connected"
        /\ recvTag[c].method = "SendMessage" /\ received[c] # <<>>
        /\ IsGet(c) /\ hpc[c] = "Reply"
        /\ Len(reply[c]) = Len(received[c]) + 1

\* The Submits issued that have not taken the lock yet.
NotEntered == {c \in Conns : IsSend(c) /\ hpc[c] \in {"Req", "Lock"}}

\* C31: whenever the lock is free the transcript has as many lines as
\* Submits have been issued and have left their critical section, that is
\* all issued but those that have not taken the lock yet; the reply of the
\* Submit that took the lock as the k-th has k lines, so it is never empty;
\* and so has the reply a caller holds from a Submit.
C31_LengthIsCount ==
    /\ ~mu => Len(history) = TotalSent - Cardinality(NotEntered)
    /\ \A c \in Conns :
           /\ IsSend(c) /\ Replied(c) =>
                  Len(reply[c]) = atLock[c] + 1 /\ reply[c] # <<>>
           /\ recvTag[c].method = "SendMessage" =>
                  Len(received[c]) = recvTag[c].stamp + 1 /\ received[c] # <<>>
C31_Witness ==
    /\ ~mu
    /\ Len(history) = 2
    /\ TotalSent = 3
    /\ \E c \in Conns : IsSend(c) /\ hpc[c] = "Reply" /\ atLock[c] = 1 /\ Len(reply[c]) = 2
    /\ \E c \in Conns : IsSend(c) /\ hpc[c] = "Lock"

\* C32: the lock is either held or free; it is held exactly while one
\* handler is between its Lock and its return, so it is free whenever no
\* call is inside a handler, whichever way the handlers before returned; and
\* the handler that holds it always has its next step enabled.
C32_LockReleased ==
    /\ mu \in BOOLEAN
    /\ mu <=> Holders # {}
    /\ Cardinality(Holders) <= 1
    /\ (\A c \in Conns : hpc[c] \in {"none", "Req", "Reply"}) => ~mu
    /\ \A c \in Holders : ENABLED HolderStep(c)
C32_Witness ==
    /\ ~mu
    /\ \E c \in Conns : IsGet(c) /\ hpc[c] = "Reply" /\ reply[c] = <<>>
    /\ \E c \in Conns : IsSend(c) /\ hpc[c] = "Reply"
    /\ \A c \in Conns : hpc[c] \in {"none", "Req", "Reply"}

\* C33: while a call is being read from its connection or its reply waits
\* to be written, the lock is held, if at all, by the handler of another
\* call; a call that waits for a free lock can take it whatever the other
\* connections are doing; and a call whose handler waits for the lock gets
\* to its return, although callers may stall for ever before a request is
\* read or a reply is taken, or break their connection.
C33_Inv ==
    /\ \A c \in Conns :
           hpc[c] \in {"Req", "Reply"} /\ mu => \E d \in Conns \ {c} : InCS(d)
    /\ \A d \in Conns :
           hpc[d] = "Lock" /\ Holders = {} => ENABLED Acquire(d)
C33_StallsBlockNobody ==
    /\ []C33_Inv
    /\ \A d \in Conns : (hpc[d] = "Lock") ~> (hpc[d] = "Reply")
C33_Witness ==
    \E c, d \in Conns :
        /\ c # d
        /\ hpc[c] = "Reply" /\ client[c] = "failed" /\ myIdx[c] > 0
        /\ hpc[d] = "Reply" /\ atLock[d] >= myIdx[c]

\* The places of the completed appends of the sender and text of a.
SameAs(a) ==
    {k \in 1..Len(applied) : applied[k].name = a.name /\ applied[k].message = a.message}

\* C34: every completed append has its own place in the transcript, also
\* when its sender and text are those of an earlier one, from the same
\* connection or from another: the transcript is as long as the appends
\* are many, and the line of a sender and text stands at each of the
\* places where they were appended, equal lines at different places.
C34_NoDedup ==
    /\ Len(history) = Len(applied)
    /\ \A k \in 1..Len(applied) :
           /\ \A j \in SameAs(applied[k]) :
                  j <= Len(history) => history[j] = Format(applied[k].name,
                                                           applied[k].message)
           /\ Cardinality({j \in 1..Len(history) :
                               history[j] = Format(applied[k].name, applied[k].message)})
                  >= Cardinality(SameAs(applied[k]))
C34_Witness ==
    /\ Len(history) = 3
    /\ history[1] = history[2] /\ history[2] = history[3]
    /\ applied[1].conn = applied[2].conn
    /\ applied[3].conn # applied[1].conn
    /\ \A c \in Conns : hpc[c] = "none"

\* C35: no call of a chat client is a Fetch and no reply it holds is one
\* of a Fetch; what a client holds changes only when the reply of its own
\* Submit reaches it, and what it displays only when it prints that reply;
\* a step that appends to the transcript changes no client's display; and
\* a client that has submitted nothing holds and displays nothing.
C35_Inv ==
    \A c \in Conns :
        /\ call[c].method # "GetHistory"
        /\ recvTag[c].method # "GetHistory"
        /\ issued[c] = <<>> => printed[c] = <<>> /\ received[c] = <<>>
C35_Step ==
    \A c \in Conns :
        /\ printed'[c] # printed[c] =>
               /\ cpc[c] = "Call" /\ cpc'[c] = "Loop" /\ hpc[c] = "none"
               /\ recvTag[c].method = "SendMessage"
               /\ printed'[c] = <<Header>> \o received[c] \o <<Footer>>
        /\ received'[c] # received[c] /\ client'[c] = "connected" =>
               /\ hpc[c] = "Reply" /\ IsSend(c) /\ ret[c] = "nil"
               /\ received'[c] = reply[c]
        /\ history' # history => printed'[c] = printed[c]
C35_OwnSubmitOnly == []C35_Inv /\ [][C35_Step]_vars
C35_Witness ==
    \E c \in Conns :
        /\ cpc[c] = "Loop" /\ client[c] = "connected"
        /\ Len(printed[c]) = 3
        /\ Len(history) = 2
        /\ \A d \in Conns : hpc[d] = "none"

\* s neither begins nor ends with white space.
Trimmed(s) == s = <<>> \/ (s[1] \notin White /\ s[Len(s)] \notin White)
\* m is the line t without the white space at its two ends.
StripOf(m, t) ==
    /\ Trimmed(m)
    /\ \E i \in 0..Len(t) :
           /\ i + Len(m) <= Len(t)
           /\ SubSeq(t, i + 1, i + Len(m)) = m
           /\ \A k \in 1..Len(t) : k <= i \/ k > i + Len(m) => t[k] \in White

\* C36: the name of a client is the line read at startup without the white
\* space at its ends; every Submit a client has issued carries that name
\* and a message without white space at its ends that is not "exit", the
\* one on its way being the line read last, stripped; and every line
\* appended for a client is its name, a colon and a space, and a message
\* that is not "exit".
C36_ArgsTrimmed ==
    \A c \in Conns :
        /\ cpc[c] = "Loop" /\ issued[c] = <<>> => StripOf(clientName[c], typed[c])
        /\ Trimmed(clientName[c])
        /\ \A i \in 1..Len(issued[c]) :
               /\ issued[c][i].name = clientName[c]
               /\ Trimmed(issued[c][i].message)
               /\ issued[c][i].message # ExitWord
        /\ cpc[c] = "Call" /\ issued[c] # <<>> =>
               StripOf(issued[c][Len(issued[c])].message, typed[c])
        /\ hpc[c] # "none" =>
               call[c].name = clientName[c] /\ call[c].message # ExitWord
        /\ \A k \in Places(c) :
               k <= Len(history) =>
                   /\ PrefixOf(clientName[c] \o ColonSpace, history[k])
                   /\ history[k] # clientName[c] \o ColonSpace \o ExitWord
C36_Witness ==
    /\ typed[1] = <<"E", "x", "i", "t", "\n">>
    /\ cpc[1] = "Call"
    /\ Len(issued[1]) = 2
    /\ issued[1][1].message = Empty
    /\ clientName[1] = Alice
    /\ Len(history) = 2

\* s holds a colon followed by a space.
HasSep(s) == \E i \in 1..(Len(s) - 1) : s[i] = ":" /\ s[i + 1] = " "

\* C37: when two appended lines are equal and neither sender holds a colon
\* followed by a space, the two senders are equal and so are the two texts;
\* and the handler appends the line of any sender, one that holds a colon
\* followed by a space too.
C37_Unambiguous ==
    /\ (/\ Len(applied) = 2 /\ Len(history) = 2
        /\ ~HasSep(applied[1].name) /\ ~HasSep(applied[2].name)
        /\ history[1] = history[2])
       => (/\ applied[1].name = applied[2].name
           /\ applied[1].message = applied[2].message)
    /\ \A c \in Conns :
           IsSend(c) /\ myIdx[c] = 2 =>
               /\ Len(history) = 2
               /\ Len(history) = 2 =>
                      history[2] = call[c].name \o ColonSpace \o call[c].message
C37_Witness ==
    /\ Len(applied) = 2 /\ Len(history) = 2
    /\ history[1] = history[2]
    /\ applied[1].name = Empty
    /\ applied[2].name = ColonSpace
    /\ applied[1].message # applied[2].message

====
